---------------------------- MODULE Spec2Model ----------------------------
(***************************************************************************)
(* Model of the records-retention-schedule extraction pipeline:            *)
(*   - the Field Normalizer  (clean_record_fields: va-pdfs.py,             *)
(*     oh-general.py, oh-specific-process.py),                             *)
(*   - the Quality Scorer    (score_records, va-pdfs.py),                  *)
(*   - the Strategy Arbiter  (process_and_evaluate: the sequential one of  *)
(*     va-pdfs.py and the run-both one of va-gs-pdfs.py).                  *)
(*                                                                         *)
(* Text is modelled as Python models it: a string is a sequence of         *)
(* one-character strings, and every regular expression of the source is    *)
(* an operator over such sequences.                                        *)
(***************************************************************************)
EXTENDS Integers, Sequences, FiniteSets, TLC

(***************************************************************************)
(* Characters and strings                                                  *)
(***************************************************************************)
UpperChars == <<"A","B","C","D","E","F","G","H","I","J","K","L","M","N","O","P","Q","R","S","T","U","V","W","X","Y","Z">>
LowerChars == <<"a","b","c","d","e","f","g","h","i","j","k","l","m","n","o","p","q","r","s","t","u","v","w","x","y","z">>
DigitChars == <<"0","1","2","3","4","5","6","7","8","9">>

UpperSet == {UpperChars[i] : i \in 1..26}
LowerSet == {LowerChars[i] : i \in 1..26}
DigitSet == {DigitChars[i] : i \in 1..10}

IsAlpha(c) == c \in UpperSet \/ c \in LowerSet
IsDigit(c) == c \in DigitSet
\* \w of Python's re: letters, digits and the underscore
IsWordChar(c) == IsAlpha(c) \/ IsDigit(c) \/ c = "_"
\* \s of Python's re, and what str.strip() removes
IsSpace(c) == c \in {" ", "\n", "\t"}

ToLower(c) == IF c \in UpperSet THEN LowerChars[CHOOSE i \in 1..26 : UpperChars[i] = c] ELSE c
ToUpper(c) == IF c \in LowerSet THEN UpperChars[CHOOSE i \in 1..26 : LowerChars[i] = c] ELSE c
DigitVal(c) == (CHOOSE i \in 1..10 : DigitChars[i] = c) - 1

\* str.lower()
Lower(s) == [i \in 1..Len(s) |-> ToLower(s[i])]

\* str.title(): a letter is upper-cased when the character before it is not a
\* letter, and lower-cased otherwise
Title(s) == [i \in 1..Len(s) |->
               IF i = 1 \/ ~IsAlpha(s[i-1]) THEN ToUpper(s[i]) ELSE ToLower(s[i])]

MinOf(S) == CHOOSE x \in S : \A y \in S : x <= y
MaxOf(S) == CHOOSE x \in S : \A y \in S : y <= x

\* s[i:j] of Python with 1-based inclusive bounds; empty when i > j
Slice(s, i, j) == IF i > j THEN <<>> ELSE SubSeq(s, i, j)
\* the rest of s from position i
From(s, i) == Slice(s, i, Len(s))

\* p occurs in s at position i
MatchAt(s, i, p) ==
    /\ i >= 1
    /\ i + Len(p) - 1 <= Len(s)
    /\ \A k \in 1..Len(p) : s[i + k - 1] = p[k]

\* p occurs in s at position i, letter case ignored (re.IGNORECASE on a literal)
MatchAtI(s, i, p) == MatchAt(Lower(s), i, Lower(p))

\* p in s
Contains(s, p) == \E i \in 1..(Len(s) + 1) : MatchAt(s, i, p)

\* s.startswith(p)
StartsWith(s, p) == MatchAt(s, 1, p)

\* str.strip()
Strip(s) ==
    LET keep == {i \in 1..Len(s) : ~IsSpace(s[i])}
    IN  IF keep = {} THEN <<>> ELSE SubSeq(s, MinOf(keep), MaxOf(keep))

\* re.sub(r'\s+', ' ', s): every maximal run of whitespace becomes one space
RECURSIVE CollapseWs(_)
CollapseWs(s) ==
    IF s = <<>> THEN <<>>
    ELSE IF IsSpace(Head(s))
         THEN IF Len(s) > 1 /\ IsSpace(s[2])
              THEN CollapseWs(Tail(s))
              ELSE <<" ">> \o CollapseWs(Tail(s))
         ELSE <<Head(s)>> \o CollapseWs(Tail(s))

\* re.sub(r'\s+', ' ', s).strip()
NormalizeWs(s) == Strip(CollapseWs(s))

\* \b of Python's re at the gap before position i (i in 1..Len(s)+1)
WordBoundary(s, i) ==
    LET before == i >= 2 /\ i - 1 <= Len(s) /\ IsWordChar(s[i-1])
        after  == i >= 1 /\ i <= Len(s) /\ IsWordChar(s[i])
    IN  before # after

\* the end (inclusive) of the run of characters satisfying the test that
\* starts at i; i - 1 when s[i] does not satisfy it
RECURSIVE DigitRunEnd(_, _)
DigitRunEnd(s, i) ==
    IF i <= Len(s) /\ IsDigit(s[i]) THEN DigitRunEnd(s, i + 1) ELSE i - 1

RECURSIVE SpaceRunEnd(_, _)
SpaceRunEnd(s, i) ==
    IF i <= Len(s) /\ IsSpace(s[i]) THEN SpaceRunEnd(s, i + 1) ELSE i - 1

\* int(d) for a string of decimal digits
RECURSIVE IntOf(_)
IntOf(d) == IF d = <<>> THEN 0 ELSE 10 * IntOf(SubSeq(d, 1, Len(d) - 1)) + DigitVal(d[Len(d)])

(***************************************************************************)
(* String literals of the source                                           *)
(***************************************************************************)
sNonConfDestruction == <<"N","o","n","-","c","o","n","f","i","d","e","n","t","i","a","l"," ","D","e","s","t","r","u","c","t","i","o","n">>
sConfDestruction == <<"C","o","n","f","i","d","e","n","t","i","a","l"," ","D","e","s","t","r","u","c","t","i","o","n">>
sPermanentArchives == <<"P","e","r","m","a","n","e","n","t",","," ","A","r","c","h","i","v","e","s">>
sPermanentInAgency == <<"P","e","r","m","a","n","e","n","t",","," ","I","n"," ","A","g","e","n","c","y">>
sArchives == <<"A","r","c","h","i","v","e","s">>
sDestruction == <<"D","e","s","t","r","u","c","t","i","o","n">>
sNonConfidential == <<"N","o","n","-","c","o","n","f","i","d","e","n","t","i","a","l">>
sConfidential == <<"C","o","n","f","i","d","e","n","t","i","a","l">>
sCFR == <<"C","F","R">>
sVAC == <<"V","A","C">>
sUSC == <<"U","S","C">>
sCOV == <<"C","O","V">>
sORC == <<"O","R","C">>
sCodeOfVirginia == <<"C","o","d","e"," ","o","f"," ","V","i","r","g","i","n","i","a">>
sEar == <<"e","a","r">>
sYear == <<"y","e","a","r">>
sPermanent == <<"P","e","r","m","a","n","e","n","t">>
sPermanentl == <<"p","e","r","m","a","n","e","n","t","l">>
sRetain == <<"R","e","t","a","i","n">>
sThen == <<"t","h","e","n">>
sOaks == <<"O","A","K","S",":">>
sPossible == <<"p","o","s","s","i","b","l","e">>
sReview == <<"r","e","v","i","e","w">>
sShred == <<"s","h","r","e","d">>
sThisSeries == <<"t","h","i","s"," ","s","e","r","i","e","s">>
sDocuments == <<"d","o","c","u","m","e","n","t","s"," ">>
WORD_TO_NUM == <<
    [word |-> <<"o","n","e">>, num |-> 1],
    [word |-> <<"t","w","o">>, num |-> 2],
    [word |-> <<"t","h","r","e","e">>, num |-> 3],
    [word |-> <<"f","o","u","r">>, num |-> 4],
    [word |-> <<"f","i","v","e">>, num |-> 5],
    [word |-> <<"s","i","x">>, num |-> 6],
    [word |-> <<"s","e","v","e","n">>, num |-> 7],
    [word |-> <<"e","i","g","h","t">>, num |-> 8],
    [word |-> <<"n","i","n","e">>, num |-> 9],
    [word |-> <<"t","e","n">>, num |-> 10],
    [word |-> <<"e","l","e","v","e","n">>, num |-> 11],
    [word |-> <<"t","w","e","l","v","e">>, num |-> 12],
    [word |-> <<"f","i","f","t","e","e","n">>, num |-> 15],
    [word |-> <<"s","i","x","t","e","e","n">>, num |-> 16]
>>

\* None of Python is the empty tuple; an integer n is <<n>>
None == <<>>
Some(n) == <<n>>

(***************************************************************************)
(* Regular expressions shared by the normalizers                           *)
(***************************************************************************)
\* \d+\s*<word> at position i, <word> matched with letter case ignored:
\* the digits and the whitespace are runs that end where <word> begins
DigitsThenAt(s, i, word) ==
    /\ i >= 1 /\ i <= Len(s)
    /\ IsDigit(s[i])
    /\ MatchAtI(s, SpaceRunEnd(s, DigitRunEnd(s, i) + 1) + 1, word)

\* re.sub(r'[\.,;:]$', '', s): one trailing punctuation character is removed
DropTrailingPunct(s) ==
    IF s # <<>> /\ s[Len(s)] \in {".", ",", ";", ":"}
    THEN Slice(s, 1, Len(s) - 1)
    ELSE s

\* re.search(r'(\d+)\s*[Yy]ear', s): the start of the leftmost match, 0 if none
YearMatchStart(s) ==
    LET hits == {i \in 1..Len(s) :
                    /\ IsDigit(s[i])
                    /\ LET y == SpaceRunEnd(s, DigitRunEnd(s, i) + 1) + 1
                       IN  /\ y <= Len(s)
                           /\ s[y] \in {"Y", "y"}
                           /\ MatchAt(s, y + 1, sEar)}
    IN  IF hits = {} THEN 0 ELSE MinOf(hits)

\* int(match.group(1)) of the match that starts at i
YearMatchValue(s, i) == IntOf(Slice(s, i, DigitRunEnd(s, i)))

(***************************************************************************)
(* Field Normalizer, Virginia (va-pdfs.py clean_record_fields)             *)
(***************************************************************************)
DispPhrases == <<sNonConfDestruction, sConfDestruction, sPermanentArchives,
                 sPermanentInAgency, sArchives, sDestruction>>

\* re.search(r'(?i)(Non-confidential Destruction|...|Destruction)$', s):
\* the start of the leftmost match, 0 if none
DispMatchStart(s) ==
    LET hits == {i \in 1..Len(s) :
                    \E k \in 1..Len(DispPhrases) :
                        Lower(From(s, i)) = Lower(DispPhrases[k])}
    IN  IF hits = {} THEN 0 ELSE MinOf(hits)

ConfTokens == <<sNonConfidential, sConfidential>>

\* the alternatives of (Non-confidential|Confidential) that match at i
\* between two word boundaries
ConfAltsAt(s, i) ==
    {k \in 1..Len(ConfTokens) :
        /\ WordBoundary(s, i)
        /\ MatchAtI(s, i, ConfTokens[k])
        /\ WordBoundary(s, i + Len(ConfTokens[k]))}

\* re.search(r'(?i)\b(Non-confidential|Confidential)\b', s):
\* [start, stop] of the leftmost match (stop inclusive), start = 0 if none
ConfMatch(s) ==
    LET hits == {i \in 1..Len(s) : ConfAltsAt(s, i) # {}}
    IN  IF hits = {} THEN [start |-> 0, stop |-> 0]
        ELSE LET i == MinOf(hits)
                 k == MinOf(ConfAltsAt(s, i))
             IN  [start |-> i, stop |-> i + Len(ConfTokens[k]) - 1]

\* re.search(fr'(?i)\b{kw}\b', s): the start of the leftmost match, 0 if none
KwMatchStart(s, kw) ==
    LET hits == {i \in 1..Len(s) :
                    /\ WordBoundary(s, i)
                    /\ MatchAtI(s, i, kw)
                    /\ WordBoundary(s, i + Len(kw))}
    IN  IF hits = {} THEN 0 ELSE MinOf(hits)

\* one round of the loop over ["Destruction", "Archives"]; st = [ret, disp]
KwStep(st, kw) ==
    LET i == KwMatchStart(st.ret, kw)
    IN  IF i # 0 /\ ~Contains(Lower(st.disp), Lower(kw))
        THEN [ret  |-> NormalizeWs(Slice(st.ret, 1, i - 1) \o From(st.ret, i + Len(kw))),
              disp |-> Strip(st.disp \o <<" ">> \o kw)]
        ELSE st

\* re.search(citation_pattern, s, re.IGNORECASE) with citation_pattern
\* (\b\d+\s*CFR.*|\b\d+\s*VAC.*|\bCode of Virginia\b.*|\bCOV\b.*|\b\d+\s*USC.*)$
\* on a string without line breaks: the match runs to the end of s.
\* The start of the leftmost match, 0 if none
VaCitationStart(s) ==
    LET hits == {i \in 1..Len(s) :
                    /\ WordBoundary(s, i)
                    /\ \/ DigitsThenAt(s, i, sCFR)
                       \/ DigitsThenAt(s, i, sVAC)
                       \/ DigitsThenAt(s, i, sUSC)
                       \/ MatchAtI(s, i, sCodeOfVirginia)
                            /\ WordBoundary(s, i + Len(sCodeOfVirginia))
                       \/ MatchAtI(s, i, sCOV) /\ WordBoundary(s, i + Len(sCOV))}
    IN  IF hits = {} THEN 0 ELSE MinOf(hits)

\* the test of line 168 without its second conjunct; the confidentiality
\* property below must tell the two apart
ConfidentialWordOnly(d) == Contains(Lower(d), Lower(sConfidential))

\* "confidential" in d.lower() and "non-confidential" not in d.lower()
IsConfidential(d) ==
    /\ Contains(Lower(d), Lower(sConfidential))
    /\ ~Contains(Lower(d), Lower(sNonConfidential))

\* retention_years of va-pdfs.py: the digits before "year" decide first; the
\* 'permanent' branch and the last branch both give None
VaRetentionYears(retention, disposition) ==
    LET i == YearMatchStart(retention)
    IN  IF i # 0 THEN Some(YearMatchValue(retention, i))
        ELSE IF Contains(Lower(retention), Lower(sPermanent))
                  \/ Contains(Lower(disposition), Lower(sPermanent))
             THEN None
             ELSE None

\* clean_record_fields of va-pdfs.py.  The record keeps its other keys
\* (series_id here; the static metadata is not read and not modelled).
VaCleanRecordFields(record) ==
    LET title == NormalizeWs(record.series_title)
        desc0 == NormalizeWs(record.series_description)
        ret0  == NormalizeWs(record.retention_statement)
        disp0 == NormalizeWs(record.disposition)
        \* lines 129-135
        dm    == DispMatchStart(IF disp0 # <<>> THEN disp0 ELSE ret0)
        lift  == dm # 0 /\ disp0 = <<>>
        disp1 == IF lift THEN Title(From(ret0, dm)) ELSE disp0
        ret1  == IF lift THEN Strip(Slice(ret0, 1, dm - 1)) ELSE ret0
        \* lines 137-142
        cm    == ConfMatch(ret1)
        tok   == Slice(ret1, cm.start, cm.stop)
        ret2  == IF cm.start # 0
                 THEN NormalizeWs(Slice(ret1, 1, cm.start - 1) \o From(ret1, cm.stop + 1))
                 ELSE ret1
        disp2 == IF cm.start # 0 /\ ~StartsWith(Lower(disp1), Lower(tok))
                 THEN Strip(Title(tok) \o <<" ">> \o disp1)
                 ELSE disp1
        \* lines 144-149
        st3   == KwStep(KwStep([ret |-> ret2, disp |-> disp2], sDestruction), sArchives)
        \* lines 151-157
        ci    == VaCitationStart(desc0)
        cit   == IF ci # 0 THEN Strip(From(desc0, ci)) ELSE <<>>
        desc1 == IF ci # 0
                 THEN Strip(DropTrailingPunct(Strip(Slice(desc0, 1, ci - 1))))
                 ELSE desc0
    IN  [series_id           |-> record.series_id,
         series_title        |-> title,
         series_description  |-> desc1,
         retention_statement |-> st3.ret,
         retention_years     |-> VaRetentionYears(st3.ret, st3.disp),
         disposition         |-> st3.disp,
         confidential        |-> IsConfidential(st3.disp),
         legal_citation      |-> cit]

(***************************************************************************)
(* Field Normalizer, Ohio general schedule (oh-general.py)                 *)
(***************************************************************************)
\* s[0].upper() + s[1:] if s else ""
CapFirst(s) == IF s = <<>> THEN <<>> ELSE <<ToUpper(s[1])>> \o Tail(s)

\* _clean_punct without the removal of the trailing punctuation; the
\* "then" example below must tell the two apart
StripOnly(s) == Strip(s)

\* _clean_punct
CleanPunct(s) == Strip(DropTrailingPunct(s))

\* _PERMANENT_RE = 'permanently?' with IGNORECASE matches at i: "permanentl",
\* then an optional "y".  The length of the match at i, 0 if none
PermanentLenAt(s, i) ==
    IF MatchAtI(s, i, sPermanentl)
    THEN IF i + 10 <= Len(s) /\ ToLower(s[i + 10]) = "y" THEN 11 ELSE 10
    ELSE 0

\* _PERMANENT_RE.search(s)
PermanentSearch(s) == \E i \in 1..Len(s) : PermanentLenAt(s, i) > 0

\* _PERMANENT_RE.sub('', s): every match, left to right, is removed
RECURSIVE PermanentSub(_, _)
PermanentSub(s, i) ==
    IF i > Len(s) THEN <<>>
    ELSE IF PermanentLenAt(s, i) > 0
         THEN PermanentSub(s, i + PermanentLenAt(s, i))
         ELSE <<s[i]>> \o PermanentSub(s, i + 1)

\* line 60 leaving the retention text as it is; the "permanently" example
\* below must tell the two apart
KeepRetain(s) == s

\* _RETAIN_EMPTY_RE.sub('', s) with '^Retain[\s\.]*$', IGNORECASE
RetainEmptySub(s) ==
    IF /\ MatchAtI(s, 1, sRetain)
       /\ \A k \in (Len(sRetain) + 1)..Len(s) : IsSpace(s[k]) \/ s[k] = "."
    THEN <<>>
    ELSE s

\* _THEN_DISP_RE = '(?:,\s*)?then\s+(.*)', IGNORECASE, matches at i:
\* the position of group(1), 0 if there is no match at i
ThenGroupAt(s, i) ==
    LET t == IF i <= Len(s) /\ s[i] = ","
                  /\ MatchAtI(s, SpaceRunEnd(s, i + 1) + 1, sThen)
             THEN SpaceRunEnd(s, i + 1) + 1
             ELSE i
        w == t + Len(sThen)
    IN  IF MatchAtI(s, t, sThen) /\ w <= Len(s) /\ IsSpace(s[w])
        THEN SpaceRunEnd(s, w) + 1
        ELSE 0

\* _THEN_DISP_RE.search(s): the start of the leftmost match, 0 if none
ThenMatchStart(s) ==
    LET hits == {i \in 1..Len(s) : ThenGroupAt(s, i) # 0}
    IN  IF hits = {} THEN 0 ELSE MinOf(hits)

\* _OAKS_RE = '\.?\s*OAKS:.*', IGNORECASE, matches at i
OaksAt(s, i) ==
    LET a == IF i <= Len(s) /\ s[i] = "." THEN i + 1 ELSE i
    IN  MatchAtI(s, SpaceRunEnd(s, a) + 1, sOaks)

\* _OAKS_RE.search(s): the start of the leftmost match, 0 if none
OaksMatchStart(s) ==
    LET hits == {i \in 1..Len(s) : OaksAt(s, i)}
    IN  IF hits = {} THEN 0 ELSE MinOf(hits)

\* s.replace(old, new) for a non-empty old: every occurrence, left to right
RECURSIVE Replace(_, _, _)
Replace(s, old, new) ==
    IF s = <<>> THEN <<>>
    ELSE IF MatchAt(s, 1, old)
         THEN new \o Replace(From(s, Len(old) + 1), old, new)
         ELSE <<Head(s)>> \o Replace(Tail(s), old, new)

\* the end (inclusive) of the match of <lead>\s*\d+ [\.\d+] that starts at i
\* with <lead> of length n, 0 if none
OhCitationEndAt(s, i) ==
    LET orcD  == SpaceRunEnd(s, i + 3) + 1
        orcE  == DigitRunEnd(s, orcD)
        orcF  == DigitRunEnd(s, orcE + 2)
        numE  == DigitRunEnd(s, i)
        numW  == SpaceRunEnd(s, numE + 1) + 1
        numD  == SpaceRunEnd(s, numW + 3) + 1
        numF  == DigitRunEnd(s, numD)
    IN  IF ~WordBoundary(s, i) THEN 0
        ELSE IF MatchAtI(s, i, sORC) /\ orcE >= orcD
                  /\ orcE + 1 <= Len(s) /\ s[orcE + 1] = "." /\ orcF >= orcE + 2
             THEN orcF
        ELSE IF i <= Len(s) /\ IsDigit(s[i])
                  /\ (MatchAtI(s, numW, sCFR) \/ MatchAtI(s, numW, sUSC))
                  /\ numF >= numD
             THEN numF
        ELSE 0

\* _LEGAL_CITATION_RE.search(s): group(1).strip() of the leftmost match, or
\* the empty string when there is none
OhCitation(s) ==
    LET hits == {i \in 1..Len(s) : OhCitationEndAt(s, i) # 0}
    IN  IF hits = {} THEN <<>>
        ELSE Strip(Slice(s, MinOf(hits), OhCitationEndAt(s, MinOf(hits))))

OhHasCitation(s) == \E i \in 1..Len(s) : OhCitationEndAt(s, i) # 0

\* re.search(r'(\d+)\s*year', s, re.IGNORECASE): start of the leftmost match
DigitYearStart(s) ==
    LET hits == {i \in 1..Len(s) : DigitsThenAt(s, i, sYear)}
    IN  IF hits = {} THEN 0 ELSE MinOf(hits)

\* the entries of WORD_TO_NUM whose word stands at i between two word
\* boundaries and is followed by \s*year (letter case ignored)
WordNumAt(s, i) ==
    {k \in 1..Len(WORD_TO_NUM) :
        LET w == WORD_TO_NUM[k].word
        IN  /\ WordBoundary(s, i)
            /\ MatchAtI(s, i, w)
            /\ WordBoundary(s, i + Len(w))
            /\ MatchAtI(s, SpaceRunEnd(s, i + Len(w)) + 1, sYear)}

\* _WORD_NUM_RE.search(s): WORD_TO_NUM[group(1).lower()] of the leftmost
\* match, None if there is none
WordNumYears(s) ==
    LET hits == {i \in 1..Len(s) : WordNumAt(s, i) # {}}
    IN  IF hits = {} THEN None
        ELSE Some(WORD_TO_NUM[MinOf(WordNumAt(s, MinOf(hits)))].num)

\* retention_years of oh-general.py: 'permanent' decides first
OhRetentionYears(retention, disposition) ==
    IF Contains(Lower(retention), Lower(sPermanent))
         \/ Contains(Lower(disposition), Lower(sPermanent))
    THEN None
    ELSE LET i == DigitYearStart(retention)
         IN  IF i # 0 THEN Some(YearMatchValue(retention, i))
             ELSE WordNumYears(retention)

\* lines 63-83 of oh-general.py: the "then ..." split; [ret, disp]
OhThenSplit(retention) ==
    LET ts == ThenMatchStart(retention)
        g0 == From(retention, ts)
        e0 == Strip(From(retention, ThenGroupAt(retention, ts)))
        os == OaksMatchStart(e0)
        oaks == From(e0, os)
        e1 == IF os # 0 THEN Strip(Replace(e0, oaks, <<>>)) ELSE e0
        r1 == IF os # 0 THEN Strip(Replace(retention, g0, oaks))
                        ELSE Strip(Replace(retention, g0, <<>>))
        e2 == CleanPunct(e1)
        r2 == CleanPunct(r1)
        dl == Lower(e2)
    IN  IF ts = 0 THEN [ret |-> retention, disp |-> <<>>]
        ELSE [ret  |-> r2,
              disp |-> IF Contains(dl, Lower(sArchives))
                           /\ ~(Contains(dl, sPossible) \/ Contains(dl, sReview))
                       THEN sPermanent
                       ELSE CapFirst(e2)]

\* clean_record_fields of oh-general.py
OhCleanRecordFields(record) ==
    LET title == NormalizeWs(record.series_title)
        desc  == NormalizeWs(record.series_description)
        ret0  == NormalizeWs(record.retention_statement)
        disp0 == NormalizeWs(record.disposition)
        \* lines 56-60
        perm  == disp0 = <<>> /\ PermanentSearch(ret0)
        disp1 == IF perm THEN sPermanent ELSE disp0
        ret1  == IF perm THEN Strip(RetainEmptySub(Strip(PermanentSub(ret0, 1)))) ELSE ret0
        \* lines 62-83
        sp    == IF disp1 = <<>> THEN OhThenSplit(ret1) ELSE [ret |-> ret1, disp |-> disp1]
        \* lines 85-87
        cit   == IF OhHasCitation(desc) THEN OhCitation(desc) ELSE OhCitation(sp.ret)
    IN  [series_id           |-> record.series_id,
         series_title        |-> title,
         series_description  |-> desc,
         retention_statement |-> sp.ret,
         retention_years     |-> OhRetentionYears(sp.ret, sp.disp),
         disposition         |-> sp.disp,
         confidential        |-> IsConfidential(sp.disp),
         legal_citation      |-> cit]

(***************************************************************************)
(* Field Normalizer, Ohio agency schedules (oh-specific-process.py)        *)
(***************************************************************************)
\* retention_years of oh-specific-process.py; the digit pattern is
\* (\d+)\s*[Yy]ear without IGNORECASE, the word pattern has IGNORECASE
OhsRetentionYears(retention, disposition) ==
    IF Contains(Lower(retention), Lower(sPermanent))
         \/ Contains(Lower(disposition), Lower(sPermanent))
    THEN None
    ELSE LET i == YearMatchStart(retention)
         IN  IF i # 0 THEN Some(YearMatchValue(retention, i))
             ELSE WordNumYears(retention)

\* is_confidential of oh-specific-process.py
OhsIsConfidential(d) == IsConfidential(d) \/ Contains(Lower(d), sShred)

\* clean_record_fields of oh-specific-process.py
OhsCleanRecordFields(record) ==
    LET title == NormalizeWs(record.series_title)
        desc  == NormalizeWs(record.series_description)
        ret   == NormalizeWs(record.retention_statement)
        disp  == NormalizeWs(record.disposition)
        cit   == IF OhHasCitation(desc) THEN OhCitation(desc) ELSE OhCitation(ret)
    IN  [series_id           |-> record.series_id,
         series_title        |-> title,
         series_description  |-> desc,
         retention_statement |-> ret,
         retention_years     |-> OhsRetentionYears(ret, disp),
         disposition         |-> disp,
         confidential        |-> OhsIsConfidential(disp),
         legal_citation      |-> cit]

(***************************************************************************)
(* Quality Scorer (va-pdfs.py score_records)                               *)
(***************************************************************************)
EmptyScore == -9999

\* re.search(r'\d{6}', t)
HasSixDigits(t) ==
    \E i \in 1..(Len(t) - 5) : \A k \in 0..5 : IsDigit(t[i + k])

\* lines 534-556 without the two tests on the description (lines 540-541
\* and 550-551)
PenaltyApartFromDescription(records, i) ==
    LET r     == records[i]
        title == Strip(r.series_title)
        ret   == Strip(r.retention_statement)
    IN    (IF \E j \in 1..(i - 1) : records[j].series_id = r.series_id THEN 20 ELSE 0)
        + (IF title = <<>> THEN 15 ELSE 0)
        + (IF ret = <<>> THEN 10 ELSE 0)
        + (IF StartsWith(Lower(title), sThisSeries) THEN 15 ELSE 0)
        + (IF StartsWith(Lower(title), sDocuments) THEN 15 ELSE 0)
        + (IF Contains(title, sCOV) \/ Contains(title, sCFR) \/ Contains(title, sVAC)
           THEN 10 ELSE 0)
        + (IF HasSixDigits(title) THEN 10 ELSE 0)

\* what lines 534-556 subtract from the score for records[i]
RecordPenalty(records, i) ==
    LET r     == records[i]
        title == Strip(r.series_title)
        desc  == Strip(r.series_description)
        ret   == Strip(r.retention_statement)
    IN    (IF \E j \in 1..(i - 1) : records[j].series_id = r.series_id THEN 20 ELSE 0)
        + (IF title = <<>> THEN 15 ELSE 0)
        + (IF desc = <<>> THEN 5 ELSE 0)
        + (IF ret = <<>> THEN 10 ELSE 0)
        + (IF StartsWith(Lower(title), sThisSeries) THEN 15 ELSE 0)
        + (IF StartsWith(Lower(title), sDocuments) THEN 15 ELSE 0)
        + (IF desc # <<>> /\ title = <<>> THEN 10 ELSE 0)
        + (IF Contains(title, sCOV) \/ Contains(title, sCFR) \/ Contains(title, sVAC)
           THEN 10 ELSE 0)
        + (IF HasSixDigits(title) THEN 10 ELSE 0)

\* lines 558-559 left out; the scoring formula below must tell the two apart
NoBonus(r) == 0

\* what lines 558-559 add to the score for record r
RecordBonus(r) == IF r.retention_years # None THEN 3 ELSE 0

\* the penalties of records[lo..hi], summed by halves
RECURSIVE PenaltySum(_, _, _)
PenaltySum(records, lo, hi) ==
    IF lo > hi THEN 0
    ELSE IF lo = hi THEN RecordPenalty(records, lo)
    ELSE LET mid == (lo + hi) \div 2
         IN  PenaltySum(records, lo, mid) + PenaltySum(records, mid + 1, hi)

\* the bonuses of records[lo..hi], summed by halves
RECURSIVE BonusSum(_, _, _)
BonusSum(records, lo, hi) ==
    IF lo > hi THEN 0
    ELSE IF lo = hi THEN RecordBonus(records[lo])
    ELSE LET mid == (lo + hi) \div 2
         IN  BonusSum(records, lo, mid) + BonusSum(records, mid + 1, hi)

\* score_records: the loop of lines 528-559 subtracts and adds record by
\* record; the order of the terms does not change the sum
ScoreRecords(records) ==
    IF records = <<>> THEN EmptyScore
    ELSE Len(records) * 10 - PenaltySum(records, 1, Len(records))
                           + BonusSum(records, 1, Len(records))

(***************************************************************************)
(* Bounds                                                                  *)
(***************************************************************************)
\* the longest candidate record list drawn from RecordPool
MaxRecs == 2
\* the documents of one batch
NumDocs == 2
\* the length of the one long candidate: long enough for its penalties to
\* take the score below EmptyScore
FloodLen == 167
\* how often the normalizer is applied to one record
MaxPasses == 2

(***************************************************************************)
(* What a strategy can return                                              *)
(***************************************************************************)
\* records as the parsers return them, each one already passed through
\* clean_record_fields (va-pdfs.py lines 259, 399, 433)
RecordPool == {
    \* fully populated, retention in years
    [series_id |-> <<"1","0","0","0","0","1">>,
     series_title |-> <<"B","u","d","g","e","t"," ","F","i","l","e","s">>,
     series_description |-> <<"D","o","c","u","m","e","n","t","s"," ","b","u","d","g","e","t","s">>,
     retention_statement |-> <<"3"," ","Y","e","a","r","s">>,
     retention_years |-> Some(3),
     disposition |-> <<"D","e","s","t","r","u","c","t","i","o","n">>,
     confidential |-> FALSE,
     legal_citation |-> <<>>],
    \* fully populated, retention without a number of years
    [series_id |-> <<"1","0","0","0","0","2">>,
     series_title |-> <<"A","u","d","i","t"," ","R","e","p","o","r","t","s">>,
     series_description |-> <<"D","o","c","u","m","e","n","t","s"," ","a","u","d","i","t","s">>,
     retention_statement |-> <<"U","n","t","i","l"," ","s","u","p","e","r","s","e","d","e","d">>,
     retention_years |-> None,
     disposition |-> <<"D","e","s","t","r","u","c","t","i","o","n">>,
     confidential |-> FALSE,
     legal_citation |-> <<>>],
    \* description missing, retention in years
    [series_id |-> <<"1","0","0","0","0","4">>,
     series_title |-> <<"P","a","y","r","o","l","l">>,
     series_description |-> <<>>,
     retention_statement |-> <<"5"," ","Y","e","a","r","s">>,
     retention_years |-> Some(5),
     disposition |-> <<"D","e","s","t","r","u","c","t","i","o","n">>,
     confidential |-> FALSE,
     legal_citation |-> <<>>]
}

\* a table row whose title cell is a lead phrase with a citation and a
\* number, and whose other cells are empty
FloodRecord ==
    [series_id |-> <<"1","0","0","0","0","9">>,
     series_title |-> <<"T","h","i","s"," ","s","e","r","i","e","s"," ","C","O","V"," ","1","2","3","4","5","6">>,
     series_description |-> <<>>,
     retention_statement |-> <<>>,
     retention_years |-> None,
     disposition |-> <<>>,
     confidential |-> FALSE,
     legal_citation |-> <<>>]

\* a long table of such rows
Flood == [i \in 1..FloodLen |-> FloodRecord]

\* ten fully populated records with distinct ids
TenComplete ==
    [i \in 1..10 |->
        [series_id |-> <<"1","0","0","1","0",DigitChars[i]>>,
         series_title |-> <<"A","u","d","i","t"," ","R","e","p","o","r","t","s">>,
         series_description |-> <<"D","o","c","u","m","e","n","t","s"," ","a","u","d","i","t","s">>,
         retention_statement |-> <<"U","n","t","i","l"," ","s","u","p","e","r","s","e","d","e","d">>,
         retention_years |-> None,
         disposition |-> <<"D","e","s","t","r","u","c","t","i","o","n">>,
         confidential |-> FALSE,
         legal_citation |-> <<>>]]

\* twelve records with distinct ids, the first four without a title (and
\* without a description), all with retention in years
TwelveFourUntitled ==
    [i \in 1..12 |->
        [series_id |-> IF i <= 10 THEN <<"1","0","0","2","0",DigitChars[i]>>
                       ELSE <<"1","0","0","2","1",DigitChars[i - 10]>>,
         series_title |-> IF i <= 4 THEN <<>>
                          ELSE <<"B","u","d","g","e","t"," ","F","i","l","e","s">>,
         series_description |-> IF i <= 4 THEN <<>>
                                ELSE <<"D","o","c","u","m","e","n","t","s"," ","b","u","d","g","e","t","s">>,
         retention_statement |-> <<"3"," ","Y","e","a","r","s">>,
         retention_years |-> Some(3),
         disposition |-> <<"D","e","s","t","r","u","c","t","i","o","n">>,
         confidential |-> FALSE,
         legal_citation |-> <<>>]]

CandidateLists ==
    UNION {[1..n -> RecordPool] : n \in 0..MaxRecs}
        \cup {Flood, TenComplete, TwelveFourUntitled}

\* score_records on the long candidate, computed once
FloodScore == ScoreRecords(Flood)

\* the penalties lines 534-556 charge the long candidate, computed once
FloodPenalty == PenaltySum(Flood, 1, Len(Flood))

\* score_records on the ten complete records, computed once
TenCompleteScore == ScoreRecords(TenComplete)

\* score_records on the twelve records with four untitled, computed once
TwelveFourUntitledScore == ScoreRecords(TwelveFourUntitled)

\* score_records on a candidate
CandidateScore(records) ==
    IF records = Flood THEN FloodScore
    ELSE IF records = TenComplete THEN TenCompleteScore
    ELSE IF records = TwelveFourUntitled THEN TwelveFourUntitledScore
    ELSE ScoreRecords(records)

\* the penalties lines 534-556 charge the ten complete records, computed once
TenCompletePenalty == PenaltySum(TenComplete, 1, Len(TenComplete))

\* the penalties lines 534-556 charge the twelve records, computed once
TwelveFourUntitledPenalty ==
    PenaltySum(TwelveFourUntitled, 1, Len(TwelveFourUntitled))

\* the penalties lines 534-556 charge a candidate
CandidatePenalty(records) ==
    IF records = Flood THEN FloodPenalty
    ELSE IF records = TenComplete THEN TenCompletePenalty
    ELSE IF records = TwelveFourUntitled THEN TwelveFourUntitledPenalty
    ELSE PenaltySum(records, 1, Len(records))

(***************************************************************************)
(* Strategy Arbiter                                                        *)
(***************************************************************************)
VARIABLES
    impl,            \* "seq": va-pdfs.py, "both": va-gs-pdfs.py
    doc,             \* the document of the batch being processed (1..NumDocs)
    pc,              \* where process_and_evaluate stands
    strategies,      \* va-pdfs.py line 593
    idx,             \* the position of the for loop of line 599 (1-based)
    best_score,      \* va-pdfs.py line 595
    best_records,    \* va-pdfs.py line 596, va-gs-pdfs.py lines 432/435
    winning_method,  \* va-pdfs.py line 597, va-gs-pdfs.py lines 433/436
    attempts,        \* history: what each strategy run of this document gave
    stopped,         \* history: the loop was left by the break of line 622
    result,          \* how the call ended: "written", "no_output", "error"
    output,          \* the records written to <schedule_id>.json
    processed,       \* the calls of this batch that have returned
    propagated,      \* an exception left process_and_evaluate
    failures,        \* history: the calls of this batch that ended in the
                     \* except clause
    nvariant,        \* which clean_record_fields is applied
    nraw,            \* the raw record given to it
    nrec,            \* its latest output
    nfirst,          \* history: its output on the raw record
    npasses,         \* how often it has been applied
    qrecords,        \* the record list given to score_records
    qscore,          \* what score_records returned, None before the call
    parser,          \* "table": parse_using_table_engine,
                     \* "silo": parse_using_vertical_silo
    pdoc,            \* the document of the batch being parsed
    ppc,             \* where the parser stands
    pageno,          \* the pages (silo) or tables (table engine) of the
                     \* document handled so far
    g1, g2, g3,      \* va-pdfs.py line 273
    current_record,  \* va-pdfs.py line 272, None when there is none
    all_records,     \* va-pdfs.py line 271
    processed_records, \* va-pdfs.py lines 195 and 378
    bands,           \* va-pdfs.py line 335: the bands of the page just handled
    prev_walls,      \* history: the gutters in force before the step just
                     \* handled
    pages            \* history: the pages or tables handled so far in this call

avars == <<impl, doc, pc, strategies, idx, best_score, best_records,
           winning_method, attempts, stopped, result, output, processed,
           propagated, failures>>
nvars == <<nvariant, nraw, nrec, nfirst, npasses>>
qvars == <<qrecords, qscore>>
pvars == <<parser, pdoc, ppc, pageno, g1, g2, g3, current_record, all_records,
           processed_records, bands, prev_walls, pages>>
vars == <<avars, nvars, qvars, pvars>>

\* score_records is not running
ScoreIdle ==
    /\ qrecords = <<>>
    /\ qscore = <<>>

\* no parser is running
ParseIdle ==
    /\ parser = "none"
    /\ pdoc = 1
    /\ ppc = "idle"
    /\ pageno = 0
    /\ g1 = 0 /\ g2 = 0 /\ g3 = 0
    /\ current_record = <<>>
    /\ all_records = <<>>
    /\ processed_records = <<>>
    /\ bands = <<>>
    /\ prev_walls = <<>>
    /\ pages = <<>>

\* lines 564-575 with the last list turned round
SiloBeforeTable(is_image, large) ==
    IF is_image THEN <<"html">>
    ELSE IF large THEN <<"silo">>
    ELSE <<"silo", "table">>

\* select_optimal_strategy_memory_aware, given is_image and whether
\* file_size_mb > 50
SelectOptimalStrategy(is_image, large) ==
    IF is_image THEN <<"html">>
    ELSE IF large THEN <<"silo">>
    ELSE <<"table", "silo">>

\* strategy.upper() for the three strategy names
UpperName(strategy) ==
    CASE strategy = "html"  -> "HTML"
      [] strategy = "table" -> "TABLE"
      [] strategy = "silo"  -> "SILO"

\* line 614 with the comparison turned round; the best-result property below
\* must tell the two apart
Worse(score, best) == score < best

\* the branch of line 614
Better(score, best) == score > best

\* line 620 asking for the base score exactly; the early-termination
\* property below must tell the two apart
ExactStop(records, score) == Len(records) > 0 /\ score = Len(records) * 10

\* the branch of line 620
EarlyStop(records, score) == Len(records) > 0 /\ score >= Len(records) * 10

\* the branch of line 627
NoViable(records, score) == records = <<>> \/ score <= 0

\* a try block that opens only at line 627; the containment property below
\* must tell the two apart
TryLate == {"select"}

\* the positions of process_and_evaluate inside its try block
\* (va-pdfs.py lines 591-641)
TrySeq == {"start", "loop", "select"}
\* (va-gs-pdfs.py lines 422-452)
TryBoth == {"start", "silo", "select"}

TryBlock == IF impl = "seq" THEN TrySeq ELSE TryBoth

\* an exception raised at position p: the except clause logs it and the call
\* returns; outside the try block it leaves the call
Raise(p) ==
    IF p \in TryBlock
    THEN /\ pc' = "done"
         /\ result' = "error"
         /\ failures' = failures + 1
         /\ propagated' = propagated
    ELSE /\ pc' = "crashed"
         /\ result' = "exception"
         /\ failures' = failures
         /\ propagated' = TRUE

Ran(strategy, records) ==
    [strategy |-> strategy, raised |-> FALSE, records |-> records,
     score |-> CandidateScore(records), penalty |-> CandidatePenalty(records)]
Failed(strategy) ==
    [strategy |-> strategy, raised |-> TRUE, records |-> <<>>,
     score |-> EmptyScore, penalty |-> 0]

\* ---- the sequential arbiter, va-pdfs.py ----

\* lines 584-597: the pre-flight check (which catches its own exceptions) and
\* the strategy selection, whose pdf_path.stat() raises when the file is gone
SeqStart ==
    /\ impl = "seq" /\ pc = "start"
    /\ \/ /\ \E is_image \in BOOLEAN, large \in BOOLEAN :
                strategies' = SelectOptimalStrategy(is_image, large)
          /\ idx' = 1
          /\ best_score' = EmptyScore
          /\ best_records' = <<>>
          /\ winning_method' = "None"
          /\ pc' = "loop"
          /\ UNCHANGED <<result, propagated, failures>>
       \/ /\ Raise("start")
          /\ UNCHANGED <<strategies, idx, best_score, best_records, winning_method>>
    /\ UNCHANGED <<impl, doc, attempts, stopped, output, processed>>
    /\ UNCHANGED <<nvars, qvars, pvars>>

\* lines 599-625: one round of the loop; the strategy returns a record list
\* or raises
SeqAttempt ==
    /\ impl = "seq" /\ pc = "loop"
    /\ LET strategy == strategies[idx]
       IN  \/ \E records \in CandidateLists :
                LET score == CandidateScore(records)
                    early == EarlyStop(records, score)
                IN  /\ best_score' = IF Better(score, best_score) THEN score ELSE best_score
                    /\ best_records' = IF Better(score, best_score) THEN records ELSE best_records
                    /\ winning_method' = IF Better(score, best_score)
                                         THEN UpperName(strategy)
                                         ELSE winning_method
                    /\ attempts' = Append(attempts, Ran(strategy, records))
                    /\ stopped' = early
                    /\ IF early \/ idx = Len(strategies)
                       THEN pc' = "select" /\ idx' = idx
                       ELSE pc' = "loop" /\ idx' = idx + 1
                    /\ UNCHANGED <<result, propagated, failures>>
           \/ /\ attempts' = Append(attempts, Failed(strategy))
              /\ Raise("loop")
              /\ UNCHANGED <<idx, best_score, best_records, winning_method, stopped>>
    /\ UNCHANGED <<impl, doc, strategies, output, processed>>
    /\ UNCHANGED <<nvars, qvars, pvars>>

\* lines 627-638: nothing to write, or the write, whose open() may raise
SeqFinish ==
    /\ impl = "seq" /\ pc = "select"
    /\ IF NoViable(best_records, best_score)
       THEN /\ pc' = "done"
            /\ result' = "no_output"
            /\ UNCHANGED <<output, propagated, failures>>
       ELSE \/ /\ pc' = "done"
               /\ result' = "written"
               /\ output' = best_records
               /\ UNCHANGED <<propagated, failures>>
            \/ /\ Raise("select")
               /\ UNCHANGED output
    /\ UNCHANGED <<impl, doc, strategies, idx, best_score, best_records,
                   winning_method, attempts, stopped, processed>>
    /\ UNCHANGED <<nvars, qvars, pvars>>

\* ---- the run-both arbiter, va-gs-pdfs.py ----

\* lines 423-425: extract_effective_date catches its own exceptions; the
\* table engine returns a record list or raises
BothTable ==
    /\ impl = "both" /\ pc = "start"
    /\ \/ /\ \E records \in CandidateLists :
                attempts' = Append(attempts, Ran("table", records))
          /\ pc' = "silo"
          /\ UNCHANGED <<result, propagated, failures>>
       \/ /\ attempts' = Append(attempts, Failed("table"))
          /\ Raise("start")
    /\ UNCHANGED <<impl, doc, strategies, idx, best_score, best_records,
                   winning_method, stopped, output, processed>>
    /\ UNCHANGED <<nvars, qvars, pvars>>

\* line 426
BothSilo ==
    /\ impl = "both" /\ pc = "silo"
    /\ \/ /\ \E records \in CandidateLists :
                attempts' = Append(attempts, Ran("silo", records))
          /\ pc' = "select"
          /\ UNCHANGED <<result, propagated, failures>>
       \/ /\ attempts' = Append(attempts, Failed("silo"))
          /\ Raise("silo")
    /\ UNCHANGED <<impl, doc, strategies, idx, best_score, best_records,
                   winning_method, stopped, output, processed>>
    /\ UNCHANGED <<nvars, qvars, pvars>>

\* line 431 without the comparison of the two scores; the selection example
\* below must tell the two apart
SiloIfPositive(score_silo, score_table) == score_silo > 0

\* the choice of lines 431-436, given both scores
SiloWins(score_silo, score_table) == score_silo >= score_table /\ score_silo > 0

\* lines 428-449
BothFinish ==
    /\ impl = "both" /\ pc = "select"
    /\ LET records_via_table == attempts[1].records
           records_via_silo  == attempts[2].records
           \* score_records on each list (lines 428-429), kept with the attempt
           score_table == attempts[1].score
           score_silo  == attempts[2].score
           silo == SiloWins(score_silo, score_table)
           best == IF silo THEN records_via_silo ELSE records_via_table
       IN  /\ best_records' = best
           /\ winning_method' = IF silo THEN "Vertical Silo" ELSE "Table Engine"
           /\ IF best = <<>>
              THEN /\ pc' = "done"
                   /\ result' = "no_output"
                   /\ UNCHANGED <<output, propagated, failures>>
              ELSE \/ /\ pc' = "done"
                      /\ result' = "written"
                      /\ output' = best
                      /\ UNCHANGED <<propagated, failures>>
                   \/ /\ Raise("select")
                      /\ UNCHANGED output
    /\ UNCHANGED <<impl, doc, strategies, idx, best_score, attempts, stopped,
                   processed>>
    /\ UNCHANGED <<nvars, qvars, pvars>>

\* ---- the batch (va-pdfs.py lines 662-670, va-gs-pdfs.py lines 469-471) ----

\* the call has returned; the pool hands the next document to the worker
NextDoc ==
    /\ pc = "done"
    /\ processed' = processed + 1
    /\ IF doc < NumDocs
       THEN /\ doc' = doc + 1
            /\ pc' = "start"
            /\ strategies' = <<>>
            /\ idx' = 1
            /\ best_score' = EmptyScore
            /\ best_records' = <<>>
            /\ winning_method' = "None"
            /\ attempts' = <<>>
            /\ stopped' = FALSE
            /\ result' = "none"
            /\ output' = <<>>
       ELSE /\ pc' = "finished"
            /\ UNCHANGED <<doc, strategies, idx, best_score, best_records,
                           winning_method, attempts, stopped, result, output>>
    /\ UNCHANGED <<impl, propagated, failures>>
    /\ UNCHANGED <<nvars, qvars, pvars>>

NormIdle ==
    /\ nvariant = "va"
    /\ nraw = None
    /\ nrec = None
    /\ nfirst = None
    /\ npasses = 0

Init ==
    /\ impl \in {"seq", "both"}
    /\ doc = 1
    /\ pc = "start"
    /\ strategies = <<>>
    /\ idx = 1
    /\ best_score = EmptyScore
    /\ best_records = <<>>
    /\ winning_method = "None"
    /\ attempts = <<>>
    /\ stopped = FALSE
    /\ result = "none"
    /\ output = <<>>
    /\ processed = 0
    /\ propagated = FALSE
    /\ failures = 0
    /\ NormIdle
    /\ ScoreIdle
    /\ ParseIdle

Next ==
    \/ SeqStart
    \/ SeqAttempt
    \/ SeqFinish
    \/ BothTable
    \/ BothSilo
    \/ BothFinish
    \/ NextDoc

Spec == Init /\ [][Next]_vars

\* the worker process keeps running: a call that can take a step takes it
\* (the parsers are loops over the finitely many pages of a document)
SpecFair == Spec /\ WF_vars(Next)

(***************************************************************************)
(* The Field Normalizer on its own                                         *)
(***************************************************************************)
\* retention cells
RetentionTexts == {
    <<>>,
    <<"R","e","t","a","i","n"," ","5"," ","Y","e","a","r","s",","," ","t","h","e","n"," ","D","e","s","t","r","u","c","t","i","o","n",".">>,
    <<"R","e","t","a","i","n"," ","p","e","r","m","a","n","e","n","t","l","y",".">>,
    <<"R","e","t","a","i","n"," ","0"," ","y","e","a","r","s">>,
    <<"3"," ","Y","e","a","r","s"," ","C","o","n","f","i","d","e","n","t","i","a","l"," ","D","e","s","t","r","u","c","t","i","o","n">>,
    <<"C","o","n","f","i","d","e","n","t","i","a","l"," ","3"," ","Y","e","a","r","s"," ","C","o","n","f","i","d","e","n","t","i","a","l">>,
    <<"P","e","r","m","a","n","e","n","t"," ","5"," ","y","e","a","r","s">>,
    <<"t","w","o"," "," ","y","e","a","r","s"," ","O","R","C"," ","1","4","9",".","3","3">>,
    <<"R","e","t","a","i","n",","," ","t","h","e","n"," ","O","A","K","S",":"," ","a"," ","t","h","e","n"," ","b">>,
    <<"5"," ","Y","e","a","r","s"," ","D","e","s","t","r","u","c","t","i","o","n"," ","a","f","t","e","r"," ","a","u","d","i","t">>,
    <<"1","2"," ","C","F","R"," ","3"," ","a","p","p","l","i","e","s"," ","2"," ","y","e","a","r","s">>
}
\* disposition cells
DispositionTexts == {
    <<>>,
    <<"N","o","n","-","c","o","n","f","i","d","e","n","t","i","a","l"," ","D","e","s","t","r","u","c","t","i","o","n">>,
    <<"C","o","n","f","i","d","e","n","t","i","a","l"," "," ","s","h","r","e","d">>,
    <<"P","e","r","m","a","n","e","n","t",","," ","A","r","c","h","i","v","e","s">>
}
\* description cells
DescriptionTexts == {
    <<>>,
    <<"B","u","d","g","e","t"," ","f","i","l","e","s","."," ","C","O","V"," ","2",".","2","-","3","7","0","4">>,
    <<"D","o","c","u","m","e","n","t","s"," "," ","b","u","d","g","e","t","s",","," ","1","2"," ","C","F","R"," ","3","4">>
}
\* title cells
TitleTexts == {
    <<"B","u","d","g","e","t">>,
    <<" ","B","u","d","g","e","t"," "," ","F","i","l","e","s"," ">>
}

RawInputs ==
    {[series_id |-> <<"1","0","0","0","0","1">>,
      series_title |-> t, series_description |-> d,
      retention_statement |-> r, disposition |-> p] :
        t \in TitleTexts, d \in DescriptionTexts,
        r \in RetentionTexts, p \in DispositionTexts}

Variants == {"va", "oh", "ohs"}

\* clean_record_fields of the chosen script
CleanRecordFields(variant, record) ==
    CASE variant = "va"  -> VaCleanRecordFields(record)
      [] variant = "oh"  -> OhCleanRecordFields(record)
      [] variant = "ohs" -> OhsCleanRecordFields(record)

ArbiterIdle ==
    /\ impl = "seq"
    /\ doc = 1
    /\ pc = "idle"
    /\ strategies = <<>>
    /\ idx = 1
    /\ best_score = EmptyScore
    /\ best_records = <<>>
    /\ winning_method = "None"
    /\ attempts = <<>>
    /\ stopped = FALSE
    /\ result = "none"
    /\ output = <<>>
    /\ processed = 0
    /\ propagated = FALSE
    /\ failures = 0

NormInit ==
    /\ nvariant \in Variants
    /\ nraw \in RawInputs
    /\ nrec = nraw
    /\ nfirst = nraw
    /\ npasses = 0
    /\ ArbiterIdle
    /\ ScoreIdle
    /\ ParseIdle

\* clean_record_fields applied to the raw record, then to its own output
Clean ==
    /\ npasses < MaxPasses
    /\ nrec' = CleanRecordFields(nvariant, nrec)
    /\ nfirst' = IF npasses = 0 THEN nrec' ELSE nfirst
    /\ npasses' = npasses + 1
    /\ UNCHANGED <<nvariant, nraw>>
    /\ UNCHANGED <<avars, qvars, pvars>>

NormNext == Clean

SpecNorm == NormInit /\ [][NormNext]_vars

(***************************************************************************)
(* The Quality Scorer on its own                                           *)
(***************************************************************************)
\* normalized records with and without each defect score_records looks for
ScorePool == {
    \* fully populated, retention in years
    [series_id |-> <<"1","0","0","0","0","1">>,
     series_title |-> <<"B","u","d","g","e","t"," ","F","i","l","e","s">>,
     series_description |-> <<"D","o","c","u","m","e","n","t","s"," ","b","u","d","g","e","t","s">>,
     retention_statement |-> <<"3"," ","Y","e","a","r","s">>,
     retention_years |-> Some(3),
     disposition |-> <<"D","e","s","t","r","u","c","t","i","o","n">>,
     confidential |-> FALSE,
     legal_citation |-> <<>>],
    \* fully populated, no number of years
    [series_id |-> <<"1","0","0","0","0","2">>,
     series_title |-> <<"A","u","d","i","t"," ","R","e","p","o","r","t","s">>,
     series_description |-> <<"D","o","c","u","m","e","n","t","s"," ","a","u","d","i","t","s">>,
     retention_statement |-> <<"U","n","t","i","l"," ","s","u","p","e","r","s","e","d","e","d">>,
     retention_years |-> None,
     disposition |-> <<"D","e","s","t","r","u","c","t","i","o","n">>,
     confidential |-> FALSE,
     legal_citation |-> <<>>],
    \* title missing, description present
    [series_id |-> <<"1","0","0","0","0","3">>,
     series_title |-> <<>>,
     series_description |-> <<"D","o","c","u","m","e","n","t","s"," ","a","u","d","i","t","s">>,
     retention_statement |-> <<"3"," ","Y","e","a","r","s">>,
     retention_years |-> Some(3),
     disposition |-> <<"D","e","s","t","r","u","c","t","i","o","n">>,
     confidential |-> FALSE,
     legal_citation |-> <<>>],
    \* a lead phrase with a citation and a number as title, the rest missing, the id of the first record
    [series_id |-> <<"1","0","0","0","0","1">>,
     series_title |-> <<"T","h","i","s"," ","s","e","r","i","e","s"," ","C","O","V"," ","1","2","3","4","5","6">>,
     series_description |-> <<>>,
     retention_statement |-> <<>>,
     retention_years |-> None,
     disposition |-> <<>>,
     confidential |-> FALSE,
     legal_citation |-> <<>>],
    \* a title that opens with 'Documents ' and cites the CFR
    [series_id |-> <<"1","0","0","0","0","5">>,
     series_title |-> <<"D","o","c","u","m","e","n","t","s"," ","o","f"," ","1","2"," ","C","F","R">>,
     series_description |-> <<"B","u","d","g","e","t"," ","f","i","l","e","s">>,
     retention_statement |-> <<"U","n","t","i","l"," ","s","u","p","e","r","s","e","d","e","d">>,
     retention_years |-> None,
     disposition |-> <<"D","e","s","t","r","u","c","t","i","o","n">>,
     confidential |-> FALSE,
     legal_citation |-> <<>>],
    \* title and description missing, the id of the second record
    [series_id |-> <<"1","0","0","0","0","2">>,
     series_title |-> <<>>,
     series_description |-> <<>>,
     retention_statement |-> <<"5"," ","Y","e","a","r","s">>,
     retention_years |-> Some(5),
     disposition |-> <<"D","e","s","t","r","u","c","t","i","o","n">>,
     confidential |-> FALSE,
     legal_citation |-> <<>>],
    \* a title that cites the VAC, and holds 'Cov' and five digits
    [series_id |-> <<"1","0","0","0","0","7">>,
     series_title |-> <<"C","o","v","e","n","a","n","t"," ","1","2","3","4","5"," ","V","A","C">>,
     series_description |-> <<"B","u","d","g","e","t"," ","f","i","l","e","s">>,
     retention_statement |-> <<"5"," ","Y","e","a","r","s">>,
     retention_years |-> Some(5),
     disposition |-> <<"D","e","s","t","r","u","c","t","i","o","n">>,
     confidential |-> FALSE,
     legal_citation |-> <<>>]
}

\* twelve records with distinct ids and no retention years, the first four
\* without a title; the four have a description or not
TwelveUntitled(described) ==
    [i \in 1..12 |->
        [series_id |-> IF i <= 10 THEN <<"1","0","0","3","0",DigitChars[i]>>
                       ELSE <<"1","0","0","3","1",DigitChars[i - 10]>>,
         series_title |-> IF i <= 4 THEN <<>>
                          ELSE <<"A","u","d","i","t"," ","R","e","p","o","r","t","s">>,
         series_description |-> IF i <= 4 /\ ~described THEN <<>>
                                ELSE <<"D","o","c","u","m","e","n","t","s"," ","a","u","d","i","t","s">>,
         retention_statement |-> <<"U","n","t","i","l"," ","s","u","p","e","r","s","e","d","e","d">>,
         retention_years |-> None,
         disposition |-> <<"D","e","s","t","r","u","c","t","i","o","n">>,
         confidential |-> FALSE,
         legal_citation |-> <<>>]]

ScoreLists ==
    UNION {[1..n -> ScorePool] : n \in 0..MaxRecs}
        \cup {TwelveUntitled(FALSE), TwelveUntitled(TRUE)}

ScoreInit ==
    /\ qrecords \in ScoreLists
    /\ qscore = None
    /\ ArbiterIdle
    /\ NormIdle
    /\ ParseIdle

\* score_records(qrecords)
Score ==
    /\ qscore = None
    /\ qscore' = Some(ScoreRecords(qrecords))
    /\ UNCHANGED qrecords
    /\ UNCHANGED <<avars, nvars, pvars>>

ScoreNext == Score

SpecScore == ScoreInit /\ [][ScoreNext]_vars

(***************************************************************************)
(* The parsers: parse_using_vertical_silo and parse_using_table_engine     *)
(***************************************************************************)
\* CONFIG["default_walls"]
DefaultWalls == <<150, 400, 550>>

\* CONFIG["footer_strings"]
FooterStrings == {
    <<"8","0","0"," ","e","."," ","b","r","o","a","d">>,
    <<"2","3","2","1","9">>,
    <<"6","9","2","-","3","6","0","0">>,
    <<"r","e","c","o","r","d","s"," ","r","e","t","e","n","t","i","o","n"," ","a","n","d"," ","d","i","s","p","o","s","i","t","i","o","n">>,
    <<"e","f","f","e","c","t","i","v","e"," ","s","c","h","e","d","u","l","e"," ","d","a","t","e">>
}

sSeries == <<"s","e","r","i","e","s">>
sNumber == <<"n","u","m","b","e","r">>
sScheduled == <<"s","c","h","e","d","u","l","e","d">>
sRetention == <<"r","e","t","e","n","t","i","o","n">>
sDisposition == <<"d","i","s","p","o","s","i","t","i","o","n">>
sMethod == <<"m","e","t","h","o","d">>
sPage == <<"p","a","g","e">>
sOf == <<"o","f">>

\* a string of digits of any length
IsDigits(s) == \A k \in 1..Len(s) : IsDigit(s[k])

\* re.match(r'^\d{6}$', s) for a string without a line break
IsSixDigits(s) == Len(s) = 6 /\ \A k \in 1..6 : IsDigit(s[k])

\* anchors.sort(key=lambda x: x['top']): ascending top, words of equal top in
\* their order in s
RECURSIVE SortByTop(_)
SortByTop(s) ==
    IF s = <<>> THEN <<>>
    ELSE LET rest == SortByTop(SubSeq(s, 1, Len(s) - 1))
             last == s[Len(s)]
             n    == Cardinality({k \in 1..Len(rest) : rest[k].top <= last.top})
         IN  SubSeq(rest, 1, n) \o <<last>> \o SubSeq(rest, n + 1, Len(rest))

\* ---- gutter calibration, lines 284-305 ----

\* the test of lines 289, 293 and 296 on words[i]
HeaderAt(words, i, first, second) ==
    /\ Lower(words[i].text) = first
    /\ i + 1 <= Len(words)
    /\ Contains(Lower(words[i + 1].text), second)

\* the positions at which lines 291, 294 and 297 assign
SeriesHits(words) ==
    {i \in 1..Len(words) : HeaderAt(words, i, sSeries, sNumber) /\ words[i].x0 > 100}
ScheduledHits(words) ==
    {i \in 1..Len(words) : HeaderAt(words, i, sScheduled, sRetention)}
DispositionHits(words) ==
    {i \in 1..Len(words) : HeaderAt(words, i, sDisposition, sMethod)}

\* page_g1, page_g2, page_g3 after the loop: the last assignment stays
PageWall(words, hits) ==
    IF hits = {} THEN None ELSE Some(words[MaxOf(hits)].x0 - 10)

\* header_bottom after the loop
HeaderBottom(words) ==
    MaxOf({0} \cup {words[i].bottom :
        i \in SeriesHits(words) \cup ScheduledHits(words) \cup DispositionHits(words)})

\* "if page_g1:" and the like: None and 0 are false
Truthy(v) == v # None /\ v[1] # 0

\* lines 300-305: the gutters in force for the page
Calibrate(walls, words) ==
    LET page_g1 == PageWall(words, SeriesHits(words))
        page_g2 == PageWall(words, ScheduledHits(words))
        page_g3 == PageWall(words, DispositionHits(words))
    IN  << IF Truthy(page_g1) THEN page_g1[1] ELSE walls[1],
           IF Truthy(page_g2) THEN page_g2[1] ELSE walls[2],
           IF Truthy(page_g3) THEN page_g3[1] ELSE walls[3] >>

\* ---- word filter, lines 307-316 ----

\* \d+\s+of\s+\d+$ matches s from position i
CountOfFrom(s, i) ==
    LET d1 == DigitRunEnd(s, i)
        s1 == SpaceRunEnd(s, d1 + 1)
        s2 == SpaceRunEnd(s, s1 + 3)
        d2 == DigitRunEnd(s, s2 + 1)
    IN  /\ d1 >= i
        /\ s1 >= d1 + 1
        /\ MatchAt(s, s1 + 1, sOf)
        /\ s2 >= s1 + 3
        /\ d2 >= s2 + 1
        /\ \/ d2 = Len(s)
           \/ d2 = Len(s) - 1 /\ s[Len(s)] = "\n"

\* re.match(r'^(page\s*)?\d+\s+of\s+\d+$', s)
IsPageCount(s) ==
    \/ CountOfFrom(s, 1)
    \/ MatchAt(s, 1, sPage) /\ CountOfFrom(s, SpaceRunEnd(s, 5) + 1)

\* any(fs in text_lower for fs in footer_strings)
IsFooter(s) == \E fs \in FooterStrings : Contains(s, fs)

\* the word passes the three tests of lines 310-315
IsValidWord(w, header_bottom, height) ==
    /\ ~(w.top < header_bottom + 5 \/ w.top < 50 \/ w.bottom > height - 40)
    /\ ~IsPageCount(Lower(w.text))
    /\ ~IsFooter(Lower(w.text))

ValidWords(words, height) ==
    LET header_bottom == HeaderBottom(words)
        Keep(w) == IsValidWord(w, header_bottom, height)
    IN  SelectSeq(words, Keep)

\* ---- anchors and bands, lines 318-346 ----

IsAnchor(w, walls) ==
    /\ walls[1] <= w.x0 /\ w.x0 < walls[2]
    /\ IsSixDigits(Strip(w.text))

\* lines 318-322
Anchors(valid_words, walls) ==
    LET Is(w) == IsAnchor(w, walls)
    IN  SortByTop(SelectSeq(valid_words, Is))

\* bands that all run to the foot of the page
BandsToPageEnd(anchors, height) ==
    SubSeq([i \in 1..Len(anchors) |->
               [series_id  |-> Strip(anchors[i].text),
                y_start    |-> anchors[i].top - 15,
                y_end      |-> height,
                desc_words |-> <<>>,
                ret_words  |-> <<>>,
                disp_words |-> <<>>]],
           1, Len(anchors))

\* lines 335-346: the list of bands, one for each anchor
MakeBands(anchors, height) ==
    SubSeq([i \in 1..Len(anchors) |->
               [series_id  |-> Strip(anchors[i].text),
                y_start    |-> anchors[i].top - 15,
                y_end      |-> IF i + 1 <= Len(anchors) THEN anchors[i + 1].top - 15
                               ELSE height,
                desc_words |-> <<>>,
                ret_words  |-> <<>>,
                disp_words |-> <<>>]],
           1, Len(anchors))

\* ---- word assignment, lines 326-332 and 348-368 ----

\* the three-way test of lines 327-332, 354-359 and 363-368
AddWord(rec, w, walls) ==
    IF w.x1 < walls[1]
    THEN [rec EXCEPT !.desc_words = Append(rec.desc_words, w)]
    ELSE IF walls[2] <= w.x0 /\ w.x0 < walls[3]
         THEN [rec EXCEPT !.ret_words = Append(rec.ret_words, w)]
         ELSE IF w.x0 >= walls[3]
              THEN [rec EXCEPT !.disp_words = Append(rec.disp_words, w)]
              ELSE rec

\* the first band whose range holds the word's top, 0 when there is none
BandOf(bs, w) ==
    LET hits == {i \in 1..Len(bs) : bs[i].y_start <= w.top /\ w.top < bs[i].y_end}
    IN  IF hits = {} THEN 0 ELSE MinOf(hits)

\* "w in anchors": list membership compares the words by value
InList(w, list) == \E i \in 1..Len(list) : list[i] = w

\* lines 326-332: every valid word goes to the open record
RECURSIVE FeedOpen(_, _, _)
FeedOpen(rec, valid_words, walls) ==
    IF valid_words = <<>> THEN rec
    ELSE FeedOpen(AddWord(rec, Head(valid_words), walls), Tail(valid_words), walls)

\* lines 348-368 from word k on; st = [bands, current], current being None
\* or Some(record)
RECURSIVE AssignFrom(_, _, _, _, _)
AssignFrom(st, valid_words, k, anchors, walls) ==
    IF k > Len(valid_words) THEN st
    ELSE LET w == valid_words[k]
             b == BandOf(st.bands, w)
             next ==
                IF InList(w, anchors) THEN st
                ELSE IF b # 0
                     THEN [st EXCEPT !.bands[b] = AddWord(st.bands[b], w, walls)]
                     ELSE IF st.current # None /\ w.top < st.bands[1].y_start
                          THEN [st EXCEPT !.current = Some(AddWord(st.current[1], w, walls))]
                          ELSE st
         IN  AssignFrom(next, valid_words, k + 1, anchors, walls)

\* ---- carry-over, lines 370-376 ----

\* a loop that opens the last band of the page without closing the record
\* that was open or the bands before it
CarryWithoutClosing(all, current, bs) ==
    [all |-> all, current |-> IF bs = <<>> THEN current ELSE Some(bs[Len(bs)])]

\* lines 370-373: [all, current] after the loop over the bands
RECURSIVE CarryOver(_, _, _)
CarryOver(all, current, bs) ==
    IF bs = <<>> THEN [all |-> all, current |-> current]
    ELSE CarryOver(IF current # None THEN Append(all, current[1]) ELSE all,
                   Some(Head(bs)), Tail(bs))

\* ---- stringify_words, lines 99-105 ----

\* round(top / 5) * 5 for a whole number top: the quotient never lies half
\* way between two integers
RowKey(top) == ((top + 2) \div 5) * 5

\* the sort of line 103: ascending (RowKey(top), x0), equal keys in their
\* order in s
RECURSIVE SortReading(_)
SortReading(s) ==
    IF s = <<>> THEN <<>>
    ELSE LET rest == SortReading(SubSeq(s, 1, Len(s) - 1))
             last == s[Len(s)]
             NotAfter(w) == \/ RowKey(w.top) < RowKey(last.top)
                            \/ RowKey(w.top) = RowKey(last.top) /\ w.x0 <= last.x0
             n    == Cardinality({k \in 1..Len(rest) : NotAfter(rest[k])})
         IN  SubSeq(rest, 1, n) \o <<last>> \o SubSeq(rest, n + 1, Len(rest))

\* " ".join([w['text'] for w in word_list])
RECURSIVE JoinTexts(_)
JoinTexts(ws) ==
    IF ws = <<>> THEN <<>>
    ELSE IF Len(ws) = 1 THEN ws[1].text
    ELSE ws[1].text \o <<" ">> \o JoinTexts(Tail(ws))

\* re.sub(r'-\s+', '', s): a hyphen and the whitespace after it are removed
RECURSIVE Dehyphenate(_, _)
Dehyphenate(s, i) ==
    IF i > Len(s) THEN <<>>
    ELSE IF s[i] = "-" /\ SpaceRunEnd(s, i + 1) >= i + 1
         THEN Dehyphenate(s, SpaceRunEnd(s, i + 1) + 1)
         ELSE <<s[i]>> \o Dehyphenate(s, i + 1)

StringifyWords(word_list) ==
    IF word_list = <<>> THEN <<>>
    ELSE Strip(Dehyphenate(JoinTexts(SortReading(word_list)), 1))

\* ---- split_title_and_description, lines 108-119 ----

sThisSeriesLead == <<"T","h","i","s"," ","s","e","r","i","e","s">>
LeadVerbs == {
    <<"d","o","c","u","m","e","n","t","s">>,
    <<"c","o","l","l","e","c","t","s">>,
    <<"v","e","r","i","f","i","e","s">>,
    <<"c","o","n","s","i","s","t","s">>
}

\* (?:documents|Collects|Verifies|Consists|consists)\b matches at i, letter
\* case ignored
LeadVerbAt(s, i) ==
    \E v \in LeadVerbs : MatchAtI(s, i, v) /\ WordBoundary(s, i + Len(v))

\* the pattern of line 111 matches at i
LeadAt(s, i) ==
    \/ LeadVerbAt(s, i)
    \/ /\ MatchAtI(s, i, sThisSeriesLead)
       /\ SpaceRunEnd(s, i + 11) >= i + 11
       /\ LeadVerbAt(s, SpaceRunEnd(s, i + 11) + 1)

\* re.search of line 110 on a text without a line break: the start of the
\* leftmost match, 0 if none; the match runs to the end of the text
LeadStart(s) ==
    LET hits == {i \in 1..Len(s) : LeadAt(s, i)}
    IN  IF hits = {} THEN 0 ELSE MinOf(hits)

\* <<title, description>>
SplitTitleAndDescription(raw_text) ==
    LET m    == LeadStart(raw_text)
        dots == {i \in 1..Len(raw_text) : raw_text[i] = "."}
    IN  IF m # 0
        THEN <<Strip(Slice(raw_text, 1, m - 1)), Strip(From(raw_text, m))>>
        ELSE IF dots # {} /\ MinOf(dots) - 1 < 100
             THEN <<Strip(Slice(raw_text, 1, MinOf(dots) - 1)),
                    Strip(From(raw_text, MinOf(dots) + 1))>>
             ELSE <<Strip(raw_text), <<>>>>

\* ---- lines 378-399 ----

\* the raw record of lines 386-398, normalized (the static metadata is left
\* out, as in VaCleanRecordFields)
SiloRecord(rec) ==
    LET split == SplitTitleAndDescription(StringifyWords(rec.desc_words))
    IN  VaCleanRecordFields(
            [series_id           |-> rec.series_id,
             series_title        |-> split[1],
             series_description  |-> split[2],
             retention_statement |-> StringifyWords(rec.ret_words),
             disposition         |-> StringifyWords(rec.disp_words)])

\* ---- parse_using_table_engine, lines 201-259 ----
\* A table is a sequence of rows, a row a sequence of cells, a cell a string;
\* the cell None is the empty string, which every use treats alike.

\* str.upper()
Upper(s) == [i \in 1..Len(s) |-> ToUpper(s[i])]

sSERIES == <<"S","E","R","I","E","S">>
sDESCRIPTION == <<"D","E","S","C","R","I","P","T","I","O","N">>
sNUMBER == <<"N","U","M","B","E","R">>
sRETENTION == <<"R","E","T","E","N","T","I","O","N">>
sDISPOSITION == <<"D","I","S","P","O","S","I","T","I","O","N">>

\* lines 210-213
DefaultHeaders == <<
    <<"R","E","C","O","R","D","S"," ","S","E","R","I","E","S"," ","A","N","D"," ","D","E","S","C","R","I","P","T","I","O","N">>,
    <<"S","E","R","I","E","S"," ","N","U","M","B","E","R">>,
    <<"S","C","H","E","D","U","L","E","D"," ","R","E","T","E","N","T","I","O","N"," ","P","E","R","I","O","D">>,
    <<"D","I","S","P","O","S","I","T","I","O","N"," ","M","E","T","H","O","D">> >>

\* " ".join(cells) for the cells that are not empty
RECURSIVE JoinCells(_)
JoinCells(cells) ==
    LET Filled(c) == c # <<>>
        filled == SelectSeq(cells, Filled)
    IN  IF filled = <<>> THEN <<>>
        ELSE IF Len(filled) = 1 THEN filled[1]
        ELSE filled[1] \o <<" ">> \o JoinCells(Tail(filled))

\* line 206
HasHeaderRow(table) ==
    LET first_row == Upper(JoinCells(table[1]))
    IN  Contains(first_row, sSERIES) \/ Contains(first_row, sDESCRIPTION)

\* lines 207 and 210-213
Headers(table) ==
    IF HasHeaderRow(table)
    THEN [i \in 1..Len(table[1]) |-> Strip(Replace(table[1][i], <<"\n">>, <<" ">>))]
    ELSE DefaultHeaders

\* lines 208 and 214
DataRows(table) == IF HasHeaderRow(table) THEN Tail(table) ELSE table

\* lines 216-226 from header i on (i counts from 0, as enumerate does)
RECURSIVE ColIdxFrom(_, _, _)
ColIdxFrom(col_idx, headers, i) ==
    IF i >= Len(headers) THEN col_idx
    ELSE LET h_upper == Upper(headers[i + 1])
             next == IF Contains(h_upper, sDESCRIPTION)
                     THEN [col_idx EXCEPT !.desc = i]
                     ELSE IF Contains(h_upper, sNUMBER)
                          THEN [col_idx EXCEPT !.id = i]
                          ELSE IF Contains(h_upper, sRETENTION)
                               THEN [col_idx EXCEPT !.ret = i]
                               ELSE IF Contains(h_upper, sDISPOSITION)
                                    THEN [col_idx EXCEPT !.disp = i]
                                    ELSE col_idx
         IN  ColIdxFrom(next, headers, i + 1)

ColIdx(headers) ==
    ColIdxFrom([desc |-> 0, id |-> 1, ret |-> 2, disp |-> 3], headers, 0)

\* clean_row[k] for a 0-based k
Cell(row, k) == row[k + 1]

\* line 230: the row is long enough for every column index
RowFits(row, col_idx) ==
    Len(row) > MaxOf({col_idx.desc, col_idx.id, col_idx.ret, col_idx.disp})

\* line 233
SeriesNumber(row, col_idx) ==
    Strip(Replace(Cell(row, col_idx.id), <<"\n">>, <<>>))

\* lines 237-244: <<title, description>>
TitleAndDescription(series_and_desc) ==
    LET breaks == {i \in 1..Len(series_and_desc) : series_and_desc[i] = "\n"}
    IN  IF breaks # {}
        THEN <<Strip(Slice(series_and_desc, 1, MinOf(breaks) - 1)),
               Strip(From(series_and_desc, MinOf(breaks) + 1))>>
        ELSE SplitTitleAndDescription(series_and_desc)

\* lines 246-259 for a row that passed lines 230 and 234
RowRecord(row, col_idx) ==
    LET split == TitleAndDescription(Cell(row, col_idx.desc))
    IN  VaCleanRecordFields(
            [series_id           |-> SeriesNumber(row, col_idx),
             series_title        |-> split[1],
             series_description  |-> split[2],
             retention_statement |-> Cell(row, col_idx.ret),
             disposition         |-> Cell(row, col_idx.disp)])

\* lines 228-259: the records of the rows, in order
RECURSIVE RowRecords(_, _)
RowRecords(rows, col_idx) ==
    IF rows = <<>> THEN <<>>
    ELSE IF RowFits(Head(rows), col_idx)
            /\ IsSixDigits(SeriesNumber(Head(rows), col_idx))
         THEN <<RowRecord(Head(rows), col_idx)>> \o RowRecords(Tail(rows), col_idx)
         ELSE RowRecords(Tail(rows), col_idx)

\* lines 202-259: what one table adds to processed_records
TableRecords(table) ==
    IF Len(table) < 2 THEN <<>>
    ELSE RowRecords(DataRows(table), ColIdx(Headers(table)))

\* ---- the pages and tables the documents are made of ----

\* page.height of a US Letter page, in points
PageHeight == 792

\* A word is what page.extract_words() returns for it, with whole-number
\* coordinates; a page is its words in extraction order and its height.

\* the three column headers once each, one series below them
HeaderPage ==
    [words |-> <<
        [text |-> <<"S","e","r","i","e","s">>, x0 |-> 200, x1 |-> 235, top |-> 60, bottom |-> 70],
        [text |-> <<"N","u","m","b","e","r">>, x0 |-> 240, x1 |-> 280, top |-> 60, bottom |-> 70],
        [text |-> <<"S","c","h","e","d","u","l","e","d">>, x0 |-> 420, x1 |-> 465, top |-> 60, bottom |-> 70],
        [text |-> <<"R","e","t","e","n","t","i","o","n">>, x0 |-> 470, x1 |-> 515, top |-> 60, bottom |-> 70],
        [text |-> <<"D","i","s","p","o","s","i","t","i","o","n">>, x0 |-> 560, x1 |-> 610, top |-> 60, bottom |-> 70],
        [text |-> <<"M","e","t","h","o","d">>, x0 |-> 615, x1 |-> 650, top |-> 60, bottom |-> 70],
        [text |-> <<"B","u","d","g","e","t">>, x0 |-> 20, x1 |-> 60, top |-> 100, bottom |-> 110],
        [text |-> <<"F","i","l","e","s">>, x0 |-> 65, x1 |-> 90, top |-> 100, bottom |-> 110],
        [text |-> <<"1","0","0","0","0","1">>, x0 |-> 200, x1 |-> 240, top |-> 100, bottom |-> 110],
        [text |-> <<"3">>, x0 |-> 420, x1 |-> 426, top |-> 100, bottom |-> 110],
        [text |-> <<"Y","e","a","r","s">>, x0 |-> 430, x1 |-> 460, top |-> 100, bottom |-> 110],
        [text |-> <<"D","e","s","t","r","o","y">>, x0 |-> 560, x1 |-> 600, top |-> 100, bottom |-> 110] >>,
     height |-> PageHeight]

\* no header; a word above the first band and two series
TwoSeriesPage ==
    [words |-> <<
        [text |-> <<"c","o","n","t","i","n","u","e","d">>, x0 |-> 20, x1 |-> 70, top |-> 100, bottom |-> 110],
        [text |-> <<"A","u","d","i","t">>, x0 |-> 20, x1 |-> 50, top |-> 200, bottom |-> 210],
        [text |-> <<"1","0","0","0","0","2">>, x0 |-> 200, x1 |-> 240, top |-> 200, bottom |-> 210],
        [text |-> <<"P","e","r","m","a","n","e","n","t">>, x0 |-> 420, x1 |-> 470, top |-> 200, bottom |-> 210],
        [text |-> <<"P","a","y","r","o","l","l">>, x0 |-> 20, x1 |-> 60, top |-> 300, bottom |-> 310],
        [text |-> <<"1","0","0","0","0","3">>, x0 |-> 200, x1 |-> 240, top |-> 300, bottom |-> 310],
        [text |-> <<"5">>, x0 |-> 420, x1 |-> 426, top |-> 300, bottom |-> 310],
        [text |-> <<"Y","e","a","r","s">>, x0 |-> 430, x1 |-> 460, top |-> 300, bottom |-> 310],
        [text |-> <<"S","h","r","e","d">>, x0 |-> 560, x1 |-> 590, top |-> 300, bottom |-> 310],
        [text |-> <<"8","0","0","-","6","9","2","-","3","6","0","0">>, x0 |-> 20, x1 |-> 90, top |-> 770, bottom |-> 780] >>,
     height |-> PageHeight]

\* no series number: every word belongs to the open record
ContinuationPage ==
    [words |-> <<
        [text |-> <<"r","e","-">>, x0 |-> 20, x1 |-> 40, top |-> 100, bottom |-> 110],
        [text |-> <<"c","o","r","d","s">>, x0 |-> 20, x1 |-> 50, top |-> 110, bottom |-> 120],
        [text |-> <<"A","r","c","h","i","v","e">>, x0 |-> 560, x1 |-> 600, top |-> 100, bottom |-> 110],
        [text |-> <<"b","e","t","w","e","e","n">>, x0 |-> 300, x1 |-> 340, top |-> 100, bottom |-> 110] >>,
     height |-> PageHeight]

\* only the disposition header, left of the default second gutter
NarrowDispositionPage ==
    [words |-> <<
        [text |-> <<"D","i","s","p","o","s","i","t","i","o","n">>, x0 |-> 380, x1 |-> 430, top |-> 60, bottom |-> 70],
        [text |-> <<"M","e","t","h","o","d">>, x0 |-> 435, x1 |-> 470, top |-> 60, bottom |-> 70],
        [text |-> <<"1","0","0","0","0","4">>, x0 |-> 200, x1 |-> 240, top |-> 100, bottom |-> 110],
        [text |-> <<"L","e","a","s","e","s">>, x0 |-> 20, x1 |-> 55, top |-> 100, bottom |-> 110],
        [text |-> <<"D","e","s","t","r","o","y">>, x0 |-> 380, x1 |-> 420, top |-> 100, bottom |-> 110] >>,
     height |-> PageHeight]

\* only the retention header, ten points from the left edge
LeftRetentionPage ==
    [words |-> <<
        [text |-> <<"S","c","h","e","d","u","l","e","d">>, x0 |-> 10, x1 |-> 55, top |-> 60, bottom |-> 70],
        [text |-> <<"R","e","t","e","n","t","i","o","n">>, x0 |-> 60, x1 |-> 105, top |-> 60, bottom |-> 70],
        [text |-> <<"1","0","0","0","0","5">>, x0 |-> 200, x1 |-> 240, top |-> 100, bottom |-> 110],
        [text |-> <<"D","e","e","d","s">>, x0 |-> 20, x1 |-> 50, top |-> 100, bottom |-> 110],
        [text |-> <<"2">>, x0 |-> 420, x1 |-> 426, top |-> 100, bottom |-> 110],
        [text |-> <<"Y","e","a","r","s">>, x0 |-> 430, x1 |-> 460, top |-> 100, bottom |-> 110] >>,
     height |-> PageHeight]

\* only the retention header, left of the first gutter
LeftRetentionNearPage ==
    [words |-> <<
        [text |-> <<"S","c","h","e","d","u","l","e","d">>, x0 |-> 120, x1 |-> 165, top |-> 60, bottom |-> 70],
        [text |-> <<"R","e","t","e","n","t","i","o","n">>, x0 |-> 170, x1 |-> 215, top |-> 60, bottom |-> 70],
        [text |-> <<"1","0","0","0","0","6">>, x0 |-> 200, x1 |-> 240, top |-> 100, bottom |-> 110],
        [text |-> <<"M","a","p","s">>, x0 |-> 20, x1 |-> 50, top |-> 100, bottom |-> 110] >>,
     height |-> PageHeight]

\* digit words that are no series number, and two series on one line
DigitsPage ==
    [words |-> <<
        [text |-> <<"1","2","3","4","5">>, x0 |-> 200, x1 |-> 235, top |-> 100, bottom |-> 110],
        [text |-> <<"1","2","3","4","5","6","7">>, x0 |-> 200, x1 |-> 245, top |-> 120, bottom |-> 130],
        [text |-> <<"1","0","0","0","0","9">>, x0 |-> 100, x1 |-> 140, top |-> 140, bottom |-> 150],
        [text |-> <<"1","0","0","0","0","7">>, x0 |-> 200, x1 |-> 240, top |-> 200, bottom |-> 210],
        [text |-> <<"1","0","0","0","0","8">>, x0 |-> 300, x1 |-> 340, top |-> 200, bottom |-> 210],
        [text |-> <<"P","l","a","n","s">>, x0 |-> 20, x1 |-> 50, top |-> 200, bottom |-> 210] >>,
     height |-> PageHeight]

\* a page without words
BlankPage ==
    [words |-> <<>>, height |-> PageHeight]

PagePool == {HeaderPage, TwoSeriesPage, ContinuationPage, NarrowDispositionPage, LeftRetentionPage, LeftRetentionNearPage, DigitsPage, BlankPage}

\* A table is what page.extract_tables() returns for it: rows of cell texts.

\* a header row and two rows, the second without a series number
HeaderGrid == <<
    <<<<"R","e","c","o","r","d","s"," ","S","e","r","i","e","s","\n","a","n","d"," ","D","e","s","c","r","i","p","t","i","o","n">>, <<"S","e","r","i","e","s"," ","N","u","m","b","e","r">>, <<"S","c","h","e","d","u","l","e","d","\n","R","e","t","e","n","t","i","o","n"," ","P","e","r","i","o","d">>, <<"D","i","s","p","o","s","i","t","i","o","n"," ","M","e","t","h","o","d">>>>,
    <<<<"B","u","d","g","e","t"," ","F","i","l","e","s","\n","T","h","i","s"," ","s","e","r","i","e","s"," ","d","o","c","u","m","e","n","t","s"," ","b","u","d","g","e","t","s">>, <<"1","0","0","0","0","1">>, <<"3"," ","Y","e","a","r","s">>, <<"D","e","s","t","r","o","y">>>>,
    <<<<"M","i","s","c">>, <<"1","2","3","4","5">>, <<"1"," ","Y","e","a","r">>, <<"D","e","s","t","r","o","y">>>> >>

\* no header row; a series number broken over two lines
BareGrid == <<
    <<<<"A","u","d","i","t"," ","R","e","p","o","r","t","s","."," ","A","n","n","u","a","l"," ","a","u","d","i","t","s">>, <<"1","0","0","0","\n","0","2">>, <<"P","e","r","m","a","n","e","n","t">>, <<"A","r","c","h","i","v","e">>>>,
    <<<<"M","i","n","u","t","e","s">>, <<"1","2","3","4","5","6","7">>, <<>>, <<>>>>,
    <<<<"L","e","a","s","e","s"," ","C","o","l","l","e","c","t","s"," ","l","e","a","s","e","s">>, <<" ","1","0","0","0","0","4"," ">>, <<"2"," ","Y","e","a","r","s">>, <<"S","h","r","e","d">>>> >>

\* a table of one row
SingleRowGrid == <<
    <<<<"P","a","y","r","o","l","l">>, <<"1","0","0","0","0","3">>, <<"5"," ","Y","e","a","r","s">>, <<"S","h","r","e","d">>>> >>

\* the number column first; a short row and a row without number
SwappedGrid == <<
    <<<<"S","e","r","i","e","s"," ","N","u","m","b","e","r">>, <<"D","e","s","c","r","i","p","t","i","o","n">>, <<"R","e","t","e","n","t","i","o","n">>, <<"D","i","s","p","o","s","i","t","i","o","n">>>>,
    <<<<"1","0","0","0","0","5">>, <<"D","e","e","d","s">>, <<"P","e","r","m","a","n","e","n","t">>, <<"A","r","c","h","i","v","e">>>>,
    <<<<"1","0","0","0","0","6">>, <<"M","a","p","s">>>>,
    <<<<>>, <<"P","l","a","n","s">>, <<"1"," ","Y","e","a","r">>, <<"D","e","s","t","r","o","y">>>>,
    <<<<"1","0","0","0","0","A">>, <<"P","l","a","t","s">>, <<"1"," ","Y","e","a","r">>, <<"D","e","s","t","r","o","y">>>> >>

\* a header row that names no number column
NoNumberGrid == <<
    <<<<"R","e","c","o","r","d","s"," ","S","e","r","i","e","s"," ","a","n","d"," ","D","e","s","c","r","i","p","t","i","o","n">>, <<"S","c","h","e","d","u","l","e","d"," ","R","e","t","e","n","t","i","o","n"," ","P","e","r","i","o","d">>, <<"D","i","s","p","o","s","i","t","i","o","n"," ","M","e","t","h","o","d">>, <<"N","o","t","e","s">>>>,
    <<<<"D","e","e","d","s">>, <<"1","0","0","0","0","7">>, <<"S","h","r","e","d">>, <<"n","o","n","e">>>> >>

TablePool == {HeaderGrid, BareGrid, SingleRowGrid, SwappedGrid, NoNumberGrid}

\* ---- one page of the loop of lines 279-373 ----

\* st = [walls, current, all]: the locals g1, g2, g3, current_record and
\* all_records; the result adds the bands of the page
SiloStep(st, page) ==
    LET words       == page.words
        walls       == Calibrate(st.walls, words)
        valid_words == ValidWords(words, page.height)
        anchors     == Anchors(valid_words, walls)
        assigned    == AssignFrom([bands |-> MakeBands(anchors, page.height),
                                   current |-> st.current],
                                  valid_words, 1, anchors, walls)
        carried     == CarryOver(st.all, assigned.current, assigned.bands)
    IN  IF words = <<>>
        THEN [walls |-> st.walls, current |-> st.current, all |-> st.all,
              bands |-> <<>>]
        ELSE IF anchors = <<>>
             THEN [walls   |-> walls,
                   current |-> IF st.current # None
                               THEN Some(FeedOpen(st.current[1], valid_words, walls))
                               ELSE None,
                   all     |-> st.all,
                   bands   |-> <<>>]
             ELSE [walls   |-> walls,
                   current |-> carried.current,
                   all     |-> carried.all,
                   bands   |-> assigned.bands]

\* the locals as the call before left them
Leftover == [walls |-> <<g1, g2, g3>>, current |-> current_record, all |-> all_records]

\* the locals after lines 271-273
FreshCall == [walls |-> DefaultWalls, current |-> None, all |-> <<>>]

\* the locals of the running call
Locals == [walls |-> <<g1, g2, g3>>, current |-> current_record, all |-> all_records]

\* ---- the two parsers as functions of the document ----

\* the locals after the pages ps, from the locals st; the set binds the value
\* of the locals before the step is taken
RECURSIVE SiloLoop(_, _)
SiloLoop(st, ps) ==
    IF ps = <<>> THEN st
    ELSE CHOOSE after \in
            {SiloLoop([walls   |-> SiloStep(before, Head(ps)).walls,
                       current |-> SiloStep(before, Head(ps)).current,
                       all     |-> SiloStep(before, Head(ps)).all], Tail(ps))
                : before \in {st}} : TRUE

\* lines 375-376
Closed(st) ==
    IF st.current # None THEN Append(st.all, st.current[1]) ELSE st.all

\* parse_using_vertical_silo on a document of the pages ps
ParseUsingVerticalSilo(ps) ==
    LET final == Closed(SiloLoop(FreshCall, ps))
    IN  [i \in 1..Len(final) |-> SiloRecord(final[i])]

\* parse_using_table_engine on a document of the tables ts
RECURSIVE ParseUsingTableEngine(_)
ParseUsingTableEngine(ts) ==
    IF ts = <<>> THEN <<>>
    ELSE TableRecords(Head(ts)) \o ParseUsingTableEngine(Tail(ts))

\* ---- the parser as a state machine ----

\* pages (or tables) per document
MaxPages == 2

ParserNames == {"table", "silo"}

\* a worker begins the call of one parser on the next document: lines 195
\* and 271-273
ParseStart ==
    /\ ppc = "idle"
    /\ \E p \in ParserNames : parser' = p
    /\ g1' = FreshCall.walls[1]
    /\ g2' = FreshCall.walls[2]
    /\ g3' = FreshCall.walls[3]
    /\ current_record' = FreshCall.current
    /\ all_records' = FreshCall.all
    /\ processed_records' = <<>>
    /\ pages' = <<>>
    /\ pageno' = 0
    /\ bands' = <<>>
    /\ prev_walls' = <<g1, g2, g3>>
    /\ ppc' = "pages"
    /\ UNCHANGED <<pdoc, avars, nvars, qvars>>

\* one iteration of "for page in pdf.pages", lines 279-373
SiloPage ==
    /\ ppc = "pages"
    /\ parser = "silo"
    /\ pageno < MaxPages
    /\ \E page \in PagePool :
          LET after == SiloStep(Locals, page)
          IN  /\ g1' = after.walls[1]
              /\ g2' = after.walls[2]
              /\ g3' = after.walls[3]
              /\ current_record' = after.current
              /\ all_records' = after.all
              /\ bands' = after.bands
              /\ pages' = Append(pages, page)
    /\ prev_walls' = <<g1, g2, g3>>
    /\ pageno' = pageno + 1
    /\ UNCHANGED <<parser, pdoc, ppc, processed_records, avars, nvars, qvars>>

\* the end of the document: lines 375-401
SiloFinish ==
    /\ ppc = "pages"
    /\ parser = "silo"
    /\ LET final == IF current_record # None
                    THEN Append(all_records, current_record[1])
                    ELSE all_records
       IN  /\ all_records' = final
           /\ processed_records' = [i \in 1..Len(final) |-> SiloRecord(final[i])]
    /\ ppc' = "done"
    /\ UNCHANGED <<parser, pdoc, pageno, g1, g2, g3, current_record, bands,
                   prev_walls, pages, avars, nvars, qvars>>

\* one iteration of "for table in tables", lines 201-259
TableGrid ==
    /\ ppc = "pages"
    /\ parser = "table"
    /\ pageno < MaxPages
    /\ \E table \in TablePool :
          /\ processed_records' = processed_records \o TableRecords(table)
          /\ pages' = Append(pages, table)
    /\ pageno' = pageno + 1
    /\ UNCHANGED <<parser, pdoc, ppc, g1, g2, g3, current_record, all_records,
                   bands, prev_walls, avars, nvars, qvars>>

\* line 261
TableFinish ==
    /\ ppc = "pages"
    /\ parser = "table"
    /\ ppc' = "done"
    /\ UNCHANGED <<parser, pdoc, pageno, g1, g2, g3, current_record, all_records,
                   processed_records, bands, prev_walls, pages, avars, nvars, qvars>>

\* the same worker process takes the next document (Pool(processes=1,
\* maxtasksperchild=25)); nothing is reset between the calls
ParseNextDoc ==
    /\ ppc = "done"
    /\ pdoc < NumDocs
    /\ pdoc' = pdoc + 1
    /\ ppc' = "idle"
    /\ UNCHANGED <<parser, pageno, g1, g2, g3, current_record, all_records,
                   processed_records, bands, prev_walls, pages, avars, nvars, qvars>>

ParseInit == ArbiterIdle /\ NormIdle /\ ScoreIdle /\ ParseIdle

ParseNext ==
    \/ ParseStart
    \/ SiloPage
    \/ SiloFinish
    \/ TableGrid
    \/ TableFinish
    \/ ParseNextDoc

SpecParse == ParseInit /\ [][ParseNext]_vars

(***************************************************************************)
(* Properties                                                              *)
(***************************************************************************)
\* the attempts of the current call that returned a record list
Returned == {i \in 1..Len(attempts) : ~attempts[i].raised}

\* the scores score_records gave in the current call
AttemptScores == {attempts[i].score : i \in Returned}

Highest(S) == CHOOSE m \in S : \A x \in S : x <= m

\* both the table strategy and the silo strategy returned, in this order
BothReturned ==
    /\ Len(attempts) = 2
    /\ Returned = {1, 2}
    /\ attempts[1].strategy = "table"
    /\ attempts[2].strategy = "silo"

\* the strategies the current call is to attempt, in priority order
Planned == IF impl = "seq" THEN strategies ELSE <<"table", "silo">>

\* C1 (as stated): in the sequential arbiter, after every strategy attempt,
\* best_score is the maximum of the scores of the strategies attempted so far
\* for the document, best_records is the record list of a strategy that
\* achieved this maximum, and the records written are those of a
\* highest-scoring attempted strategy.
C1_BestIsMaxAttempted ==
    (impl = "seq" /\ pc \in {"loop", "select", "done"} /\ AttemptScores # {}) =>
        /\ best_score = Highest(AttemptScores)
        /\ \E i \in Returned : /\ attempts[i].score = best_score
                               /\ attempts[i].records = best_records
        /\ result = "written" => output = best_records

\* C1 (amended): in the sequential arbiter, after every strategy attempt,
\* best_score is the maximum of -9999 and the scores of the strategies
\* attempted so far; when it is above -9999, best_records is the record list
\* of a strategy that achieved it, and otherwise best_records is empty; the
\* records written are those of a highest-scoring attempted strategy.
C1_BestIsMaxAboveFloor ==
    (impl = "seq" /\ pc \in {"loop", "select", "done"} /\ AttemptScores # {}) =>
        /\ best_score = Highest(AttemptScores \cup {EmptyScore})
        /\ best_score > EmptyScore =>
              \E i \in Returned : /\ attempts[i].score = best_score
                                  /\ attempts[i].records = best_records
        /\ best_score = EmptyScore => best_records = <<>>
        /\ result = "written" =>
              /\ output = best_records
              /\ best_score = Highest(AttemptScores)

\* C1 happens: two strategies ran, the second scored higher, and its records
\* were written
C1_Witness ==
    /\ impl = "seq" /\ result = "written"
    /\ BothReturned
    /\ attempts[2].score > attempts[1].score
    /\ output = attempts[2].records

\* C2: whenever the table strategy and the silo strategy were both attempted
\* on a document and obtained exactly the same score, the records selected
\* and written are the silo strategy's, in both arbiters.
C2_TieGoesToSilo ==
    (result = "written" /\ BothReturned
        /\ attempts[1].score = attempts[2].score) =>
        output = attempts[2].records

\* C2 happens: both strategies returned different record lists with equal
\* scores and a list was written
C2_Witness ==
    /\ result = "written" /\ BothReturned
    /\ attempts[1].score = attempts[2].score
    /\ attempts[1].records # attempts[2].records

\* C3: if a strategy raises while a document is processed, the arbiter treats
\* it as having produced zero records, still attempts every remaining
\* strategy in priority order, and chooses the output among the strategies
\* that did not fail: the call ends with a written output or with none, never
\* in the error state.
C3_FailureCountsAsZeroRecords ==
    (pc = "done" /\ \E i \in 1..Len(attempts) : attempts[i].raised) =>
        /\ result \in {"written", "no_output"}
        /\ \A i \in 1..Len(attempts) :
              attempts[i].raised => (i = Len(Planned) \/ Len(attempts) > i)

\* C3 happens: the first of two planned strategies raised and the call has
\* returned
C3_Witness ==
    /\ pc = "done" /\ Len(Planned) = 2
    /\ Len(attempts) >= 1 /\ attempts[1].raised

\* C4: in the sequential arbiter, if no attempted strategy produced any
\* record or the best score is <= 0, nothing is written for the document and
\* the call returns normally, outside the error state.
C4_NoOutputIsNormal ==
    (impl = "seq" /\ pc = "done" /\ attempts # <<>>
        /\ (\/ \A i \in 1..Len(attempts) : attempts[i].records = <<>>
            \/ best_score <= 0)) =>
        /\ result = "no_output"
        /\ output = <<>>

\* C4 restricted to calls in which no strategy raised
C4_NoOutputWhenAllReturned ==
    (impl = "seq" /\ pc = "done" /\ attempts # <<>>
        /\ Returned = 1..Len(attempts)
        /\ (\/ \A i \in 1..Len(attempts) : attempts[i].records = <<>>
            \/ best_score <= 0)) =>
        /\ result = "no_output"
        /\ output = <<>>

\* C4 happens: every planned strategy returned, one of them records with a
\* score <= 0, and the call ended without output
C4_Witness ==
    /\ impl = "seq" /\ pc = "done" /\ result = "no_output"
    /\ Returned = 1..Len(attempts)
    /\ \E i \in Returned : attempts[i].records # <<>>

\* C5: process_and_evaluate never lets an exception reach its caller:
\* whatever fails, the call for the document ends with a result (possibly
\* none written), and the batch ends only when every document has been
\* processed.
C5_NeverPropagates ==
    /\ ~propagated
    /\ pc # "crashed"
    /\ pc = "done" => result \in {"written", "no_output", "error"}
    /\ pc = "finished" => processed = NumDocs

\* C5 happens: a call of the batch ended in the except clause and a later
\* document was processed and written
C5_Witness ==
    /\ doc > 1 /\ failures >= 1
    /\ pc = "done" /\ result = "written"

\* C6: in the sequential arbiter, if a strategy yields a non-empty record
\* list in which no record incurs a scoring penalty, no later strategy is
\* attempted for the document.
C6_PenaltyFreeStops ==
    impl = "seq" =>
        \A i \in Returned :
            (attempts[i].records # <<>> /\ attempts[i].penalty = 0) =>
                i = Len(attempts)

\* C6 happens: two strategies were planned, the first returned a penalty-free
\* list, and the call ended with that list written and no second attempt
C6_Witness ==
    /\ impl = "seq" /\ Len(strategies) = 2
    /\ pc = "done" /\ result = "written"
    /\ Len(attempts) = 1 /\ Returned = {1}
    /\ attempts[1].penalty = 0

\* C7: the sequential arbiter leaves the loop before the remaining strategies
\* only when the strategy just attempted returned a non-empty, penalty-free
\* record list: one in which no record incurred any of the scorer's
\* penalties.
C7_StopsOnlyPenaltyFree ==
    (impl = "seq" /\ stopped) =>
        LET last == attempts[Len(attempts)]
        IN  /\ last.records # <<>>
            /\ last.penalty = 0

\* C7 happens: the loop was left by the break with a strategy still to go
C7_Witness ==
    /\ impl = "seq" /\ stopped
    /\ Len(attempts) < Len(strategies)

\* C8: for every record a normalizer variant returns, retention_years is null
\* or a strictly positive integer.
C8_YearsNullOrPositive ==
    npasses >= 1 =>
        \/ nrec.retention_years = None
        \/ nrec.retention_years[1] > 0

\* C8 happens: a normalizer returned a number of years
C8_Witness ==
    /\ npasses >= 1
    /\ nrec.retention_years # None

\* C9: for every normalized record, confidential is true exactly when the
\* final disposition, lower-cased, contains "confidential" and does not
\* contain "non-confidential", or, in oh-specific-process.py, contains
\* "shred".
C9_ConfidentialFromDisposition ==
    npasses >= 1 =>
        LET d == Lower(nrec.disposition)
        IN  nrec.confidential <=>
               \/ /\ Contains(d, <<"c","o","n","f","i","d","e","n","t","i","a","l">>)
                  /\ ~Contains(d, <<"n","o","n","-","c","o","n","f","i","d","e","n","t","i","a","l">>)
               \/ /\ nvariant = "ohs"
                  /\ Contains(d, <<"s","h","r","e","d">>)

\* C9 happens: the flag is set on a record whose raw disposition cell was
\* empty, the disposition having been lifted out of the retention text
C9_Witness ==
    /\ npasses >= 1
    /\ nrec.confidential
    /\ nraw.disposition = <<>>

\* C10: the normalizer is idempotent: applied to its own output it returns
\* that output, on every field.
C10_Idempotent ==
    npasses >= 2 => nrec = nfirst

\* C10 happens: a normalizer has been applied to its own output
C10_Witness ==
    /\ npasses >= 2
    /\ nfirst # nraw

\* C15: given retention "Retain 5 Years, then Destruction." and an empty
\* disposition, clean_record_fields of oh-general.py yields
\* retention_statement "Retain 5 Years", disposition "Destruction" and
\* retention_years 5.
C15_ThenExample ==
    (npasses >= 1 /\ nvariant = "oh" /\ nraw.disposition = <<>>
        /\ nraw.retention_statement =
             <<"R","e","t","a","i","n"," ","5"," ","Y","e","a","r","s",","," ","t","h","e","n"," ","D","e","s","t","r","u","c","t","i","o","n",".">>) =>
        /\ nfirst.retention_statement = <<"R","e","t","a","i","n"," ","5"," ","Y","e","a","r","s">>
        /\ nfirst.disposition = <<"D","e","s","t","r","u","c","t","i","o","n">>
        /\ nfirst.retention_years = <<5>>

\* C15 happens: oh-general.py has normalized the record of the example
C15_Witness ==
    /\ npasses = 1 /\ nvariant = "oh" /\ nraw.disposition = <<>>
    /\ nraw.retention_statement =
         <<"R","e","t","a","i","n"," ","5"," ","Y","e","a","r","s",","," ","t","h","e","n"," ","D","e","s","t","r","u","c","t","i","o","n",".">>
    /\ nrec.disposition # <<>>

\* C16: given retention "Retain permanently." and an empty disposition,
\* clean_record_fields of oh-general.py yields disposition "Permanent", an
\* empty retention_statement and retention_years null.
C16_PermanentlyExample ==
    (npasses >= 1 /\ nvariant = "oh" /\ nraw.disposition = <<>>
        /\ nraw.retention_statement =
             <<"R","e","t","a","i","n"," ","p","e","r","m","a","n","e","n","t","l","y",".">>) =>
        /\ nfirst.disposition = <<"P","e","r","m","a","n","e","n","t">>
        /\ nfirst.retention_statement = <<>>
        /\ nfirst.retention_years = <<>>

\* C16 happens: oh-general.py has normalized the record of the example
C16_Witness ==
    /\ npasses = 1 /\ nvariant = "oh" /\ nraw.disposition = <<>>
    /\ nraw.retention_statement =
         <<"R","e","t","a","i","n"," ","p","e","r","m","a","n","e","n","t","l","y",".">>
    /\ nrec.retention_statement = <<>>

\* C20: in every normalizer variant, retention_years is null whenever
\* "permanent" appears, letter case ignored, in the normalized retention
\* statement or in the normalized disposition, even when the retention
\* statement holds an integer followed by "year".
C20_PermanentHasNoYears ==
    (npasses >= 1
        /\ (\/ Contains(Lower(nrec.retention_statement), <<"p","e","r","m","a","n","e","n","t">>)
            \/ Contains(Lower(nrec.disposition), <<"p","e","r","m","a","n","e","n","t">>))) =>
        nrec.retention_years = <<>>

\* C20 happens: a normalized record says "permanent" and its retention
\* statement holds digits followed by "year"
C20_Witness ==
    /\ npasses >= 1
    /\ Contains(Lower(nrec.retention_statement), <<"p","e","r","m","a","n","e","n","t">>)
    /\ YearMatchStart(nrec.retention_statement) # 0

\* how many records of qrecords have the defect
Defects(Has(_)) == Cardinality({i \in 1..Len(qrecords) : Has(i)})

\* C13: score_records returns -9999 for an empty list; for a non-empty list
\* it returns 10 x count, minus 20 for each record whose series_id occurred
\* earlier in the list, minus 15 per empty title, 5 per empty description,
\* 10 per empty retention, 15 per title starting with "this series", 15 per
\* title starting with "documents ", 10 per record with a description and no
\* title, 10 per title containing COV, CFR or VAC, 10 per title containing
\* six consecutive digits, plus 3 per record with non-null retention_years.
C13_ScoreFormula ==
    qscore # <<>> =>
        IF qrecords = <<>>
        THEN qscore = <<-9999>>
        ELSE LET title(i) == Strip(qrecords[i].series_title)
                 desc(i)  == Strip(qrecords[i].series_description)
                 ret(i)   == Strip(qrecords[i].retention_statement)
                 Repeated(i) == \E j \in 1..(i - 1) :
                                    qrecords[j].series_id = qrecords[i].series_id
                 NoTitle(i) == title(i) = <<>>
                 NoDesc(i)  == desc(i) = <<>>
                 NoRet(i)   == ret(i) = <<>>
                 ThisSeries(i) ==
                     StartsWith(Lower(title(i)), <<"t","h","i","s"," ","s","e","r","i","e","s">>)
                 Documents(i) ==
                     StartsWith(Lower(title(i)), <<"d","o","c","u","m","e","n","t","s"," ">>)
                 DescOnly(i) == desc(i) # <<>> /\ title(i) = <<>>
                 Cites(i) == \/ Contains(title(i), <<"C","O","V">>)
                             \/ Contains(title(i), <<"C","F","R">>)
                             \/ Contains(title(i), <<"V","A","C">>)
                 SixDigits(i) ==
                     \E k \in 1..(Len(title(i)) - 5) :
                         \A d \in 0..5 : IsDigit(title(i)[k + d])
                 HasYears(i) == qrecords[i].retention_years # <<>>
             IN  qscore[1] =
                     10 * Len(qrecords)
                     - 20 * Defects(Repeated)
                     - 15 * Defects(NoTitle)
                     - 5 * Defects(NoDesc)
                     - 10 * Defects(NoRet)
                     - 15 * Defects(ThisSeries)
                     - 15 * Defects(Documents)
                     - 10 * Defects(DescOnly)
                     - 10 * Defects(Cites)
                     - 10 * Defects(SixDigits)
                     + 3 * Defects(HasYears)

\* C13 happens: a list with a repeated id, a title that is a lead phrase with
\* a citation and six digits, and a record with retention years was scored
C13_Witness ==
    /\ qscore # <<>>
    /\ Len(qrecords) = 2
    /\ qrecords[1].series_id = qrecords[2].series_id
    /\ qrecords[1].retention_years # <<>>
    /\ HasSixDigits(qrecords[2].series_title)

\* C14: given a strategy producing ten fully populated records with distinct
\* ids and a strategy producing twelve records of which four have empty
\* titles, the arbiter selects the first one's output, whichever of the two
\* is the table strategy and whichever the silo strategy.
C14_CompleteBeatsUntitled ==
    (pc = "done" /\ result # "error" /\ Len(Planned) = 2
        /\ TenComplete \in {attempts[i].records : i \in 1..Len(attempts)}
        /\ \A i \in 1..Len(attempts) :
              attempts[i].records \in {TenComplete, TwelveFourUntitled}) =>
        /\ result = "written"
        /\ output = TenComplete

\* C14 happens: the table strategy gave the twelve records, the silo strategy
\* the ten complete ones, and a list was written
C14_Witness ==
    /\ pc = "done" /\ result = "written"
    /\ Len(attempts) = 2
    /\ attempts[1].strategy = "table"
    /\ attempts[1].records = TwelveFourUntitled
    /\ attempts[2].records = TenComplete


\* ---- the parsers ----

\* a page of the running silo call has just been handled
PageHandled == parser = "silo" /\ ppc = "pages" /\ pageno >= 1

\* the positions of the header label of gutter k among the words
LabelHits(k, words) ==
    IF k = 1 THEN SeriesHits(words)
    ELSE IF k = 2 THEN ScheduledHits(words)
    ELSE DispositionHits(words)

\* C11: after the gutter calibration of every page of every document the
\* gutters in force are strictly increasing, g1 < g2 < g3, whatever headers
\* the page holds and whatever values it inherited.
C11_GuttersIncreasing ==
    PageHandled => g1 < g2 /\ g2 < g3

\* a page whose only header is the disposition header left of the second
\* gutter has been handled
C11_Witness ==
    /\ PageHandled
    /\ pages[pageno] = NarrowDispositionPage
    /\ prev_walls = DefaultWalls

\* C12: on every page with at least one anchor the bands are in ascending
\* order of y_start, their half-open ranges [y_start, y_end) do not overlap
\* pairwise, every y_end is the next y_start and the last y_end is the page
\* height.
C12_BandsPartitionPage ==
    PageHandled /\ bands # <<>> =>
        /\ \A i \in 1..(Len(bands) - 1) :
              /\ bands[i].y_start <= bands[i + 1].y_start
              /\ bands[i].y_end = bands[i + 1].y_start
        /\ \A i, j \in 1..Len(bands) :
              i < j => ~ \E y \in bands[j].y_start..(bands[i].y_end - 1) :
                          /\ bands[i].y_start <= y
                          /\ y < bands[j].y_end
        /\ bands[Len(bands)].y_end = pages[pageno].height

\* a page with two series numbers on different lines has been handled
C12_Witness ==
    /\ PageHandled
    /\ Len(bands) = 2
    /\ bands[1].y_start < bands[2].y_start

\* C17: per page, a header label that occurs exactly once (the series label
\* counting only right of x0 = 100) puts its gutter at the x0 of its first
\* word minus 10, and a label that does not occur leaves its gutter at the
\* value in force before the page, the default on the first page.
C17_CalibrationPerPage ==
    PageHandled =>
        \A k \in 1..3 :
            LET words == pages[pageno].words
                hits  == LabelHits(k, words)
                wall  == <<g1, g2, g3>>[k]
            IN  /\ Cardinality(hits) = 1 => wall = words[MinOf(hits)].x0 - 10
                /\ hits = {} => wall = prev_walls[k]
                /\ pageno = 1 => prev_walls = DefaultWalls

\* a page whose retention header stands exactly ten points from the left
\* edge has been handled
C17_Witness ==
    /\ PageHandled
    /\ Cardinality(ScheduledHits(pages[pageno].words)) = 1
    /\ pages[pageno].words[MinOf(ScheduledHits(pages[pageno].words))].x0 = 10

\* exactly six characters, each one of the ten decimal digits
ExactlySixDigits(s) ==
    /\ Len(s) = 6
    /\ \A k \in 1..Len(s) : s[k] \in {"0", "1", "2", "3", "4", "5", "6", "7", "8", "9"}

\* C18: every record either parser emits, and every record the silo parser
\* holds on the way, has a series_id of exactly six digits.
C18_SixDigitSeriesId ==
    /\ \A i \in 1..Len(processed_records) : ExactlySixDigits(processed_records[i].series_id)
    /\ \A i \in 1..Len(all_records) : ExactlySixDigits(all_records[i].series_id)
    /\ \A i \in 1..Len(bands) : ExactlySixDigits(bands[i].series_id)
    /\ current_record # None => ExactlySixDigits(current_record[1].series_id)

\* the table parser has finished a document whose table had a series number
\* broken over two lines, a seven-digit number and a padded number
C18_Witness ==
    /\ parser = "table"
    /\ ppc = "done"
    /\ pages = <<BareGrid>>
    /\ Len(processed_records) = 2

UntitledExample ==
    /\ qscore # None
    /\ Len(qrecords) = 12
    /\ \A i, j \in 1..12 : i # j => qrecords[i].series_id # qrecords[j].series_id
    /\ \A i \in 1..12 : qrecords[i].retention_years = None
    /\ Cardinality({i \in 1..12 : Strip(qrecords[i].series_title) = <<>>}) = 4
    /\ \A i \in 1..12 : PenaltyApartFromDescription(qrecords, i) \in {0, 15}
    /\ \A i \in 1..12 : Strip(qrecords[i].series_title) # <<>>
                            => Strip(qrecords[i].series_description) # <<>>

\* the untitled records of the scored list that have a description
UntitledDescribed ==
    {i \in 1..Len(qrecords) : /\ Strip(qrecords[i].series_title) = <<>>
                               /\ Strip(qrecords[i].series_description) # <<>>}

\* C29 as stated: an empty title costs a record exactly 15 points, so that
\* twelve records with distinct ids and without retention years, four of
\* them with an empty title and nothing else amiss, score 120 - 60 = 60.
C29_UntitledCostsFifteen ==
    UntitledExample => qscore = Some(60)

\* C29 amended: an untitled record loses 15 for the title and, with it, 5
\* for a missing description or 10 for a description without a title; the
\* twelve records score 120 - 4 x 20 = 40 when the four have no description
\* and 5 less for each of the four that has one.
C29_UntitledCostsTwentyOrMore ==
    UntitledExample => qscore = Some(40 - 5 * Cardinality(UntitledDescribed))

\* the example's twelve records, the four untitled ones without description,
\* have been scored
C29_Witness ==
    /\ UntitledExample
    /\ UntitledDescribed = {}
    /\ qscore = Some(40)


\* ---- the normalizers, continued ----

\* C27: after the Virginia normalizer the retention statement holds no
\* confidentiality modifier: no whole-word "Confidential" or
\* "Non-confidential" is left in it.
C27_NoModifierLeftInRetention ==
    nvariant = "va" /\ npasses >= 1 =>
        ConfMatch(nrec.retention_statement).start = 0

\* a retention text with two modifiers has gone through the Virginia
\* normalizer once
C27_Witness ==
    /\ nvariant = "va"
    /\ npasses = 1
    /\ nraw.retention_statement =
          <<"C","o","n","f","i","d","e","n","t","i","a","l"," ","3"," ","Y","e","a","r","s"," ","C","o","n","f","i","d","e","n","t","i","a","l">>


\* the description cell as the normalizers read it
RawDescription == NormalizeWs(nraw.series_description)

\* C28: in every normalizer variant the citation is searched in the
\* description first and then in the retention statement: a description
\* with a citation gives its first match, and a description without one
\* gives the first match of the retention statement when that has one.
C28_CitationFallsBackToRetention ==
    npasses = 1 =>
        LET desc == RawDescription
            ret  == nrec.retention_statement
            cit  == nrec.legal_citation
        IN  IF nvariant = "va"
            THEN /\ VaCitationStart(desc) # 0
                      => cit = Strip(From(desc, VaCitationStart(desc)))
                 /\ VaCitationStart(desc) = 0 /\ VaCitationStart(ret) # 0
                      => cit = Strip(From(ret, VaCitationStart(ret)))
            ELSE /\ OhHasCitation(desc) => cit = OhCitation(desc)
                 /\ ~OhHasCitation(desc) /\ OhHasCitation(ret)
                      => cit = OhCitation(ret)

\* the Virginia normalizer has handled a record without description whose
\* retention statement starts with a citation
C28_Witness ==
    /\ nvariant = "va"
    /\ npasses = 1
    /\ nraw.series_description = <<>>
    /\ nraw.retention_statement = <<"1","2"," ","C","F","R"," ","3"," ","a","p","p","l","i","e","s"," ","2"," ","y","e","a","r","s">>
    /\ VaCitationStart(nrec.retention_statement) = 1

\* the fallback as the two Ohio normalizers have it
C28_OhioFallsBack ==
    npasses = 1 /\ nvariant # "va" =>
        /\ OhHasCitation(RawDescription) => nrec.legal_citation = OhCitation(RawDescription)
        /\ ~OhHasCitation(RawDescription) /\ OhHasCitation(nrec.retention_statement)
              => nrec.legal_citation = OhCitation(nrec.retention_statement)


\* ---- the parsers, continued ----

\* a table of the running table call has just been handled
TableHandled == parser = "table" /\ ppc = "pages" /\ pageno >= 1

\* C30: for every table and every header row the table parser maps the
\* four column roles (description, identifier, retention, disposition) to
\* four different column indices, so that no record takes two fields from
\* one cell.
C30_ColumnRolesDistinct ==
    TableHandled /\ Len(pages[pageno]) >= 2 =>
        LET col_idx == ColIdx(Headers(pages[pageno]))
        IN  Cardinality({col_idx.desc, col_idx.id, col_idx.ret, col_idx.disp}) = 4

\* a table whose header names no number column has been handled, and its
\* row has become a record
C30_Witness ==
    /\ TableHandled
    /\ pages[pageno] = NoNumberGrid
    /\ processed_records # <<>>
    /\ processed_records[Len(processed_records)].series_id = <<"1","0","0","0","0","7">>


\* ---- the arbiters, continued ----

\* C26: the run-both arbiter never writes records whose score is <= 0, and
\* what it writes are the records of the strategy with the higher score.
C26_BothWritesOnlyPositiveBest ==
    (impl = "both" /\ result = "written" /\ BothReturned) =>
        \E k \in {1, 2} :
            /\ attempts[k].records = output
            /\ attempts[k].score > 0
            /\ attempts[k].score = Highest(AttemptScores)

\* the run-both arbiter has written the table strategy's records, whose
\* score is below zero, the silo strategy having found nothing
C26_Witness ==
    /\ impl = "both" /\ result = "written" /\ BothReturned
    /\ attempts[2].records = <<>>
    /\ output = attempts[1].records
    /\ attempts[1].score <= 0


\* the strategies attempted in the current call, in the order of the attempts
Attempted == [i \in 1..Len(attempts) |-> attempts[i].strategy]

\* no strategy twice, and never the silo before the table engine
InPriorityOrder ==
    /\ \A i, j \in 1..Len(attempts) : i # j => Attempted[i] # Attempted[j]
    /\ \A i, j \in 1..Len(attempts) :
          Attempted[i] = "silo" /\ Attempted[j] = "table" => j < i
    /\ \A i \in 1..Len(attempts) : Attempted[i] = Planned[i]

\* the best result so far changes only in the step that ends an attempt, and
\* then to that attempt's result, or when the next call starts afresh; the
\* run-both arbiter sets its best records once, after both attempts
BestChangesWithAttempt ==
    <<best_score, best_records>>' # <<best_score, best_records>> =>
        \/ /\ Len(attempts') = Len(attempts) + 1
           /\ attempts' = Append(attempts, attempts'[Len(attempts')])
           /\ best_score' = attempts'[Len(attempts')].score
           /\ best_records' = attempts'[Len(attempts')].records
        \/ pc' = "start" /\ attempts' = <<>>
        \/ impl = "both" /\ pc = "select" /\ Len(attempts) = 2

\* C25: for each document the selected strategies are attempted in the
\* fixed priority order (the table engine before the silo), each at most
\* once; the best result so far changes only as an attempt ends; and every
\* call that starts reaches its end, with an output written or without.
C25_ArbiterStateMachine ==
    /\ []InPriorityOrder
    /\ [][BestChangesWithAttempt]_vars
    /\ [](pc = "start" => <>(pc = "done"))

\* the sequential arbiter has attempted the table engine and then the silo
\* and has written an output
C25_Witness ==
    /\ impl = "seq" /\ pc = "done" /\ result = "written"
    /\ Attempted = <<"table", "silo">>
    /\ best_records = attempts[2].records



\* ---- the silo parser, continued ----

\* the words of the page handled last that passed the filter, and the
\* anchors among them
LastValidWords == ValidWords(pages[pageno].words, pages[pageno].height)
LastAnchors == Anchors(LastValidWords, <<g1, g2, g3>>)

\* the three column lists of an open record or band
ColumnLists(rec) == <<rec.desc_words, rec.ret_words, rec.disp_words>>

\* the column lists of rec that hold the word
ColumnsHolding(w, rec) ==
    {c \in 1..3 : \E k \in 1..Len(ColumnLists(rec)[c]) : ColumnLists(rec)[c][k] = w}

\* the bands of the page whose y-range holds the word's top
BandsAround(w) ==
    {i \in 1..Len(bands) : bands[i].y_start <= w.top /\ w.top < bands[i].y_end}

\* C22: no filtered word that is not an anchor is lost: on a page without
\* anchors handled while a record is open every filtered word is in a column
\* list of the open record, and on a page with anchors every such word whose
\* top lies in a band's range is in exactly one column list of that band.
C22_NoWordDropped ==
    PageHandled =>
        \A k \in 1..Len(LastValidWords) :
            LET w == LastValidWords[k]
            IN  /\ (LastAnchors = <<>> /\ current_record # None) =>
                       ColumnsHolding(w, current_record[1]) # {}
                /\ (LastAnchors # <<>> /\ ~InList(w, LastAnchors)) =>
                       \A i \in BandsAround(w) :
                           Cardinality(ColumnsHolding(w, bands[i])) = 1

\* a page without anchors has been handled with the default gutters while a
\* record was open, and a filtered word lying between the first and the second gutter is in none of
\* the record's column lists
C22_Witness ==
    /\ PageHandled
    /\ <<g1, g2, g3>> = DefaultWalls
    /\ LastAnchors = <<>>
    /\ current_record # None
    /\ \E k \in 1..Len(LastValidWords) :
          /\ g1 <= LastValidWords[k].x1
          /\ LastValidWords[k].x0 < g2
          /\ ColumnsHolding(LastValidWords[k], current_record[1]) = {}


\* the positions in the filtered words of the page handled last of those
\* that are no anchors and lie above the first band
AboveFirstBand ==
    {k \in 1..Len(LastValidWords) :
        /\ ~InList(LastValidWords[k], LastAnchors)
        /\ LastValidWords[k].top < bands[1].y_start}

\* lines 370-373 close the record an earlier page left open before all but
\* the last band of the page: it is there exactly when the record list is at
\* least as long as the list of bands
WasOpen == Len(all_records) >= Len(bands)
ClosedByPage == all_records[Len(all_records) - Len(bands) + 1]

\* C23: on a page with anchors a filtered word that is no anchor and lies
\* above the first band is placed in no band of the page; it is appended to
\* the record left open by an earlier page when there is one, and is in no
\* record otherwise.
C23_WordAboveFirstBand ==
    PageHandled /\ bands # <<>> =>
        \A k \in AboveFirstBand :
            /\ \A i \in 1..Len(bands) :
                  ColumnsHolding(LastValidWords[k], bands[i]) = {}
            /\ WasOpen =>
                  Cardinality(ColumnsHolding(LastValidWords[k], ClosedByPage)) = 1
            /\ ~WasOpen =>
                  \A i \in 1..Len(all_records) :
                      ColumnsHolding(LastValidWords[k], all_records[i]) = {}

\* as C23, for the words the three-way test of lines 363-368 places: those
\* ending left of the first gutter or starting at or right of the second
C23_PlacedWordAboveFirstBand ==
    PageHandled /\ bands # <<>> =>
        \A k \in AboveFirstBand :
            (LastValidWords[k].x1 < g1 \/ LastValidWords[k].x0 >= g2) =>
                /\ \A i \in 1..Len(bands) :
                      ColumnsHolding(LastValidWords[k], bands[i]) = {}
                /\ WasOpen =>
                      Cardinality(ColumnsHolding(LastValidWords[k], ClosedByPage)) = 1
                /\ ~WasOpen =>
                      \A i \in 1..Len(all_records) :
                          ColumnsHolding(LastValidWords[k], all_records[i]) = {}

\* the second page of a document has anchors and, above its first band, a
\* five-digit word between the first and the second gutter; the record the
\* first page left open has been closed without that word
C23_Witness ==
    /\ PageHandled
    /\ pageno = 2
    /\ pages = <<TwoSeriesPage, DigitsPage>>
    /\ WasOpen
    /\ ClosedByPage.series_id = <<"1","0","0","0","0","3">>
    /\ \E k \in AboveFirstBand :
          /\ LastValidWords[k].text = <<"1","2","3","4","5">>
          /\ ColumnsHolding(LastValidWords[k], ClosedByPage) = {}


\* the call has ended and its last page was not the first
SeveralPagesDone == parser = "silo" /\ ppc = "done" /\ pageno >= 2

\* the record the pages before the last left open, None when there was none
OpenBeforeLast == SiloLoop(FreshCall, SubSeq(pages, 1, pageno - 1)).current

\* where lines 370-376 put that record in the final record list: before the
\* bands of the last page
SpanningIndex == Len(all_records) - Len(bands)

\* the text of a column whose words are read page by page
PageOrderText(earlier, later) ==
    Strip(Dehyphenate(JoinTexts(SortReading(earlier) \o SortReading(later)), 1))

\* C24: for a record whose words come from several pages the text of each
\* column keeps the reading order across the pages: every word of an earlier
\* page precedes every word of a later page.
C24_ReadingOrderAcrossPages ==
    (SeveralPagesDone /\ OpenBeforeLast # None) =>
        \A c \in 1..3 :
            LET word_list == ColumnLists(all_records[SpanningIndex])[c]
                n == Len(ColumnLists(OpenBeforeLast[1])[c])
            IN  /\ SubSeq(word_list, 1, n) = ColumnLists(OpenBeforeLast[1])[c]
                /\ StringifyWords(word_list) =
                       PageOrderText(SubSeq(word_list, 1, n),
                                     SubSeq(word_list, n + 1, Len(word_list)))

\* the record 100003 opened on the first page takes the words "re-" and
\* "cords" from the top of the second page, and its title puts them before
\* the word of the first page
C24_Witness ==
    /\ SeveralPagesDone
    /\ pages = <<TwoSeriesPage, ContinuationPage>>
    /\ OpenBeforeLast # None
    /\ SpanningIndex = 2
    /\ processed_records[2].series_title = <<"r","e","c","o","r","d","s"," ","P","a","y","r","o","l","l">>

\* as C24 without the comparison of the texts: the words of the earlier pages
\* are the front of each column list
C24_ListsKeepPageOrder ==
    (SeveralPagesDone /\ OpenBeforeLast # None) =>
        \A c \in 1..3 :
            LET word_list == ColumnLists(all_records[SpanningIndex])[c]
                n == Len(ColumnLists(OpenBeforeLast[1])[c])
            IN  SubSeq(word_list, 1, n) = ColumnLists(OpenBeforeLast[1])[c]


\* the gutters in force after the first k pages of the call
RECURSIVE WallsAt(_)
WallsAt(k) ==
    IF k = 0 THEN DefaultWalls
    ELSE IF pages[k].words = <<>> THEN WallsAt(k - 1)
    ELSE Calibrate(WallsAt(k - 1), pages[k].words)

\* the anchors found on page k, in ascending order of top
AnchorsAt(k) ==
    IF pages[k].words = <<>> THEN <<>>
    ELSE Anchors(ValidWords(pages[k].words, pages[k].height), WallsAt(k))

\* the anchors found on the first k pages, page by page
RECURSIVE AnchorsUpTo(_)
AnchorsUpTo(k) == IF k = 0 THEN <<>> ELSE AnchorsUpTo(k - 1) \o AnchorsAt(k)

\* the records of the call in the order they were opened: the closed ones
\* and then the open one
RecordsOpened ==
    IF current_record # None THEN Append(all_records, current_record[1])
    ELSE all_records

\* rec is the record opened for the anchor
OpenedFor(rec, anchor) ==
    /\ rec.series_id = Strip(anchor.text)
    /\ rec.y_start = anchor.top - 15

\* while the pages are handled every anchor found so far has its record, in
\* the order of the anchors, and all of them but the last are closed
OneOpenRecord ==
    (parser = "silo" /\ ppc = "pages") =>
        /\ Len(RecordsOpened) = Len(AnchorsUpTo(pageno))
        /\ \A i \in 1..Len(RecordsOpened) :
              OpenedFor(RecordsOpened[i], AnchorsUpTo(pageno)[i])
        /\ current_record = None <=> AnchorsUpTo(pageno) = <<>>

\* the record list grows only by the record that was open, followed by all
\* but the last band of the page, when a page with anchors opens that last
\* band, and by the open record at the end of the document; a page without
\* anchors closes nothing
ClosedWhenSuccessorOpens ==
    (parser' = "silo" /\ ppc = "pages") =>
        /\ pageno' = pageno + 1 /\ bands' = <<>> =>
              /\ all_records' = all_records
              /\ current_record' = None <=> current_record = None
        /\ pageno' = pageno + 1 /\ bands' # <<>> =>
              LET open == IF current_record # None THEN 1 ELSE 0
              IN  /\ Len(all_records') = Len(all_records) + open + Len(bands') - 1
                  /\ SubSeq(all_records', 1, Len(all_records)) = all_records
                  /\ current_record # None =>
                        /\ all_records'[Len(all_records) + 1].series_id =
                               current_record[1].series_id
                        /\ all_records'[Len(all_records) + 1].y_start =
                               current_record[1].y_start
                  /\ SubSeq(all_records', Len(all_records) + open + 1, Len(all_records'))
                         = SubSeq(bands', 1, Len(bands') - 1)
                  /\ current_record' = Some(bands'[Len(bands')])
        /\ ppc' = "done" =>
              /\ current_record # None => all_records' = Append(all_records, current_record[1])
              /\ current_record = None => all_records' = all_records

\* after the last page the record list holds one record for each anchor
\* found on any page, in the order of the pages and, within a page, of
\* ascending top
FinalRecordsMatchAnchors ==
    (parser = "silo" /\ ppc = "done") =>
        /\ Len(all_records) = Len(AnchorsUpTo(pageno))
        /\ \A i \in 1..Len(all_records) :
              OpenedFor(all_records[i], AnchorsUpTo(pageno)[i])
        /\ Len(processed_records) = Len(all_records)
        /\ \A k \in 1..pageno : \A i \in 1..(Len(AnchorsAt(k)) - 1) :
              AnchorsAt(k)[i].top <= AnchorsAt(k)[i + 1].top

\* C21: the silo parser keeps at most one record open; a record is appended
\* to the record list exactly when its successor is opened or the document
\* ends; and after the last page the list holds exactly one record for each
\* anchor found on any page, ordered by page and then by ascending top.
C21_CarryOverProtocol ==
    /\ []OneOpenRecord
    /\ [][ClosedWhenSuccessorOpens]_vars
    /\ []FinalRecordsMatchAnchors

\* a two-page document has ended: the first page opened two records, the
\* second closed the open one and opened two more, and all four are in the
\* record list
C21_Witness ==
    /\ parser = "silo" /\ ppc = "done"
    /\ pageno = 2
    /\ Len(AnchorsAt(1)) = 2
    /\ Len(AnchorsAt(2)) = 2
    /\ Len(all_records) = 4
    /\ all_records[2].desc_words # <<>>

====
